---- MODULE Spec2Model ----
(***************************************************************************)
(* Model of the JIRA MCP server of src/server.py: the dispatcher call_tool *)
(* and the tool handlers, each run against a remote tracker whose answers  *)
(* (status code, body, transport failure) are chosen nondeterministically. *)
(*                                                                         *)
(* A handler is sequential code that suspends only on an HTTP request, so  *)
(* its position is a function of the tool name, the arguments and the      *)
(* responses received so far: every handler is an operator                 *)
(*     tool(args, rs)                                                      *)
(* that replays the handler on the responses rs and yields the next thing  *)
(* the handler does: Send a request, Return a text, or Raise.              *)
(*                                                                         *)
(* Strings the code inspects character by character (keys) are sequences   *)
(* of one-character strings.  A result text is a sequence of fragments in  *)
(* source order; the literal "Error:" is always a fragment of its own, so  *)
(* "begins with Error:" is text[1] = "Error:".                             *)
(***************************************************************************)
EXTENDS Integers, Sequences, FiniteSets, TLC

VARIABLES
    pc,         \* "idle" | "awaiting" (a request is in flight) | "done"
    tool_name,  \* tool name of the call being handled
    tool_args,  \* its argument mapping
    sent,       \* requests sent so far by this call, in order
    resps,      \* responses received so far by this call, in order
    result,     \* what call_tool returned: a list of content items
    raised,     \* TRUE iff an exception left call_tool
    tracker,    \* what the remote tracker stores: its projects, its issues
    last,       \* the call delivered last, as its caller saw it
    config,     \* the module globals JIRA_URL, JIRA_USERNAME, JIRA_API_TOKEN
    parked      \* a second call in flight, while the event loop runs this one

vars ==
    <<pc, tool_name, tool_args, sent, resps, result, raised, tracker, last,
      config, parked>>

(***************************************************************************)
(* Bounds of the model.                                                    *)
(***************************************************************************)
\* longest 'keys' list given to a bulk tool
MaxKeys == 2
\* the longest string handed to the validators on their own
MaxLen == 4

(***************************************************************************)
(* Python values.                                                          *)
(***************************************************************************)
\* Python None (an argument given as JSON null, or a missing dict entry)
None == <<"<None>">>
\* a JSON value that is not a string (e.g. the number 5) given for a string
NonString == <<"<int>">>

IsStr(v) == v # None /\ v # NonString

\* truth value of a string (or None, or a non-zero number)
Truthy(v) == v # None /\ v # <<>>

NoArgs == [k \in {} |-> <<>>]

\* args.get(k, default)
Get(args, k, default) == IF k \in DOMAIN args THEN args[k] ELSE default

\* a variant of min that keeps its first argument: no cap
min_uncapped(a, b) == a

\* min(a, b) on integers
min(a, b) == IF a <= b THEN a ELSE b

RECURSIVE Str(_)
\* the Python str made of the characters s
Str(s) == IF s = <<>> THEN "" ELSE Head(s) \o Str(Tail(s))

\* text in an f-string of a value that may be None or a number
Show(v) == IF v = None THEN "None" ELSE IF v = NonString THEN "5" ELSE Str(v)

(***************************************************************************)
(* Key validation (server.py 53-63).                                       *)
(***************************************************************************)
Upper == {"A","B","C","D","E","F","G","H","I","J","K","L","M",
          "N","O","P","Q","R","S","T","U","V","W","X","Y","Z"}
Digit == {"0","1","2","3","4","5","6","7","8","9"}
Word  == Upper \cup Digit \cup {"_"}

\* Python's '$' matches at the end of the string and also just before a
\* newline that ends the string: the part of s the pattern has to cover
BeforeDollar(s) ==
    IF Len(s) > 0 /\ s[Len(s)] = "\n" THEN SubSeq(s, 1, Len(s) - 1) ELSE s

\* re.compile(r'^[A-Z][A-Z0-9_]*$').match(s)
PROJECT_KEY_PATTERN(s) ==
    LET b == BeforeDollar(s) IN
    /\ Len(b) >= 1
    /\ b[1] \in Upper
    /\ \A i \in 2..Len(b) : b[i] \in Word

\* re.compile(r'^[A-Z][A-Z0-9_]*-\d+$').match(s)
ISSUE_KEY_PATTERN(s) ==
    LET b == BeforeDollar(s) IN
    \E d \in 2..(Len(b) - 1) :
        /\ b[1] \in Upper
        /\ \A i \in 2..(d - 1) : b[i] \in Word
        /\ b[d] = "-"
        /\ \A i \in (d + 1)..Len(b) : b[i] \in Digit

validate_project_key(project) == PROJECT_KEY_PATTERN(project)

\* a variant of validate_issue_key that accepts every string
validate_issue_key_lax(key) == TRUE

validate_issue_key(key) == ISSUE_KEY_PATTERN(key)

(***************************************************************************)
(* What a handler does next.                                               *)
(***************************************************************************)
\* return [TextContent(type="text", text=...)]
Return(text) == [t |-> "return", text |-> text]
\* await client.<method>(...)
Send(req)    == [t |-> "send", req |-> req]
\* an exception leaves the handler
Raise(exc)   == [t |-> "raise", exc |-> exc]

(***************************************************************************)
(* Requests and responses.                                                 *)
(***************************************************************************)
\* a request to JIRA_URL + path with auth=(JIRA_USERNAME, JIRA_API_TOKEN).
\*   endpoint     what the remote is asked for (decides its possible bodies)
\*   parses       the statuses at which the handler reads the body
\*   issue_keys   the issue keys interpolated into the path or the JQL
\*   project_keys the project keys interpolated into the path or the JQL
\*   maxResults   {} or {n}: the maxResults parameter
\*   fields       names of the fields of the JSON body's 'fields' object
\*   summary      the value of fields.summary in the JSON body, if any
Request(method, endpoint, path, parses) ==
    [method |-> method, endpoint |-> endpoint, base |-> config.JIRA_URL,
     path |-> path, auth |-> TRUE, parses |-> parses,
     issue_keys |-> {}, project_keys |-> {}, jql |-> "",
     maxResults |-> {}, fields |-> {}, summary |-> None]

\* status codes the remote answers with
Status == {200, 201, 204, 400, 401, 403, 404, 500}

\* response.text of a response whose body the handler only quotes
BodyText == "<response.text>"

Response(status, body) ==
    [kind |-> "response", status_code |-> status, body |-> body]

\* httpx.RequestError: timeout, DNS failure, connection refused
TransportError == [kind |-> "RequestError", msg |-> "timed out"]

(***************************************************************************)
(* The remote tracker: the bodies it may answer with, per endpoint.        *)
(***************************************************************************)
\* a body the handler only quotes, or whose content it does not look into;
\* json is FALSE when response.json() raises json.JSONDecodeError
PlainBodies == {[json |-> TRUE], [json |-> FALSE]}

\* keys the remote may name in the body of its answer to POST /issue
KW7 == <<"K","W","-","7">>
RemoteKeys == {KW7, <<".",".","/","x">>, None}

\* body of the answer to POST /rest/api/3/issue; key = None: no "key" entry
CreateBodies ==
    {[json |-> TRUE, key |-> k] : k \in RemoteKeys}
        \cup {[json |-> FALSE, key |-> None]}

Done == <<"D","o","n","e">>
ToDo == <<"T","o"," ","D","o">>

\* body of the answer to GET /issue/{key}/transitions
TransitionBodies ==
    {[json |-> TRUE, transitions |-> ts] :
        ts \in {<<>>,
                <<[id |-> <<"3","1">>, name |-> Done]>>,
                <<[id |-> <<"1","1">>, name |-> ToDo],
                  [id |-> <<"3","1">>, name |-> Done]>>,
                <<[id |-> <<"4","1">>, name |-> <<"D","O","N","E">>],
                  [id |-> <<"3","1">>, name |-> Done]>>}}
        \cup {[json |-> FALSE, transitions |-> <<>>]}

\* body of the answer to POST /issue/{key}/attachments: a list, maybe empty
UploadBodies ==
    {[json |-> TRUE, empty |-> e] : e \in BOOLEAN}
        \cup {[json |-> FALSE, empty |-> TRUE]}

\* a summary with a character json.dumps escapes
Quoted == <<"a","\"">>

\* body of the answer to GET /issue/{key}: issue["key"], and summary and
\* status of issue["fields"]; None: the entry is missing (status: is null)
IssueDetailBodies ==
    {[json |-> TRUE, key |-> k, summary |-> s, status |-> st] :
        k \in {KW7, None}, s \in {<<"t","x","t">>, Quoted, None},
        st \in {ToDo, None}}
        \cup {[json |-> FALSE, key |-> None, summary |-> None, status |-> None]}

\* entries of the answer to GET /project; lead is a dict, a str or missing
ProjectKW   == [key |-> <<"K","W">>, name |-> <<"t","x","t">>, lead |-> "dict"]
ProjectBare == [key |-> None, name |-> None, lead |-> "missing"]
ProjectOdd  == [key |-> <<"O","D">>, name |-> Quoted, lead |-> "str"]

\* the project sets of the remote, as the lists GET /project answers with
ProjectLists ==
    {<<>>, <<ProjectKW>>, <<ProjectKW, ProjectBare>>, <<ProjectOdd, ProjectKW>>}

\* entries of the 'issues' list of the answer to GET /search: the issue's
\* key and the status of its fields, None for a status that is null
IssueToDo   == [key |-> <<"K","W","-","7">>, status |-> ToDo]
IssueNoStat == [key |-> <<"K","W","-","8">>, status |-> None]

SearchBodies ==
    {[json |-> TRUE, issues |-> is] :
        is \in {<<>>, <<IssueToDo>>, <<IssueToDo, IssueNoStat>>}}
        \cup {[json |-> FALSE, issues |-> <<>>]}

ProjectListBodies ==
    {[json |-> TRUE, projects |-> ps] : ps \in ProjectLists}
        \cup {[json |-> FALSE, projects |-> <<>>]}

Bodies(endpoint) ==
    CASE endpoint = "create"      -> CreateBodies
      [] endpoint = "issue_detail" -> IssueDetailBodies
      [] endpoint = "project_list" -> ProjectListBodies
      [] endpoint = "issue_search" -> SearchBodies
      [] endpoint = "transitions" -> TransitionBodies
      [] endpoint = "upload"      -> UploadBodies
      [] OTHER                    -> PlainBodies

\* everything the remote (or the transport) may answer to req
Outcomes(req) ==
    {TransportError}
        \cup {Response(s, b) : s \in req.parses, b \in Bodies(req.endpoint)}
        \cup {Response(s, [json |-> FALSE]) : s \in Status \ req.parses}

(***************************************************************************)
(* Result texts shared by the handlers.                                    *)
(***************************************************************************)
TokenGuidance ==
    "Generate new API token at https://id.atlassian.com/manage-profile/security/api-tokens"

\* "Error: Authentication failed (401). Generate new API token at ..."
AuthFailed == <<"Error:", " Authentication failed (401). ", TokenGuidance>>

\* "Error: Access denied (403). Check JIRA project permissions and API access."
AccessDenied ==
    <<"Error:", " Access denied (403). Check JIRA project permissions and API access.">>

\* f"Error: HTTP {response.status_code}. Check JIRA URL and network connectivity."
HttpCheck(response) ==
    <<"Error:", " HTTP ", ToString(response.status_code),
      ". Check JIRA URL and network connectivity.">>

\* f"Error: HTTP {response.status_code} - {response.text}"
HttpError(response) ==
    <<"Error:", " HTTP ", ToString(response.status_code), " - ", BodyText>>

\* a variant of ConnectionFailed that leaves the exception's text out
ConnectionFailed_silent(response) == <<"Error:", " Connection failed">>

\* except httpx.RequestError as e: f"Error: Connection failed - {str(e)}"
ConnectionFailed(response) ==
    <<"Error:", " Connection failed - ", response.msg>>

\* except Exception as e: f"Error: {str(e)}"
\* a variant of Unexpected that drops the exception's message
Unexpected_anonymous(msg) == <<"Error:", " ", "Unknown tool">>

Unexpected(msg) == <<"Error:", " ", msg>>

InvalidResponse == <<"Error:", " Invalid response from JIRA API">>

InvalidIssueKey == <<"Error:", " Invalid issue key format">>

InvalidProjectKey == <<"Error:", " Invalid project key format">>

\* str(e) of the json.JSONDecodeError response.json() raises
JSONDecodeError == "Expecting value: line 1 column 1 (char 0)"

\* str(e) of the TypeError re.match raises on a value that is not a string
TypeError == "expected string or bytes-like object"

\* str(e) of the AttributeError None.get raises
AttributeErrorGet == "'NoneType' object has no attribute 'get'"

(***************************************************************************)
(* json.dumps of the strings a result payload shows.                       *)
(***************************************************************************)
\* a variant of JsonChar that escapes nothing
JsonChar_raw(c) == c

\* one character of a str inside json.dumps: the quote, the backslash and
\* the control characters are escaped
JsonChar(c) ==
    CASE c = "\"" -> "\\\"" [] c = "\\" -> "\\\\" [] c = "\n" -> "\\n"
      [] OTHER -> c

\* json.dumps(s) of a str s as fragments: quote, characters, quote
json_dumps(s) ==
    <<"\"">> \o [i \in 1..Len(s) |-> JsonChar(s[i])] \o <<"\"">>

\* d.get(k, default) of an entry that may be missing
Default(v, default) == IF v = None THEN default ELSE v

Unknown   == <<"U","n","k","n","o","w","n">>
NoSummary == <<"N","o"," ","s","u","m","m","a","r","y">>
NoName    == <<"N","o"," ","n","a","m","e">>

(***************************************************************************)
(* The read tools (server.py 702-1100).                                    *)
(***************************************************************************)
RECURSIVE issue_infos(_)
\* the list built by "for issue in issues_data: try: ... append(...) except
\* Exception: continue": .get("status", {}).get("name", "Unknown") raises
\* on a null status, and the issue is skipped
issue_infos(issues_data) ==
    IF issues_data = <<>> THEN <<>>
    ELSE LET issue == Head(issues_data) IN
         (IF issue.status = None THEN <<>>
          ELSE <<"{\"key\": ">> \o json_dumps(Default(issue.key, Unknown))
                   \o <<", \"summary\": ..., \"status\": ...}">>)
             \o issue_infos(Tail(issues_data))

get_user_stories(args, rs) ==
    LET project == Get(args, "project", <<>>)
        limit   == min(Get(args, "limit", 10), 100)
        jql     == IF Truthy(project)
                   THEN "project = " \o Str(project)
                            \o " AND issuetype = Story ORDER BY created DESC"
                   ELSE "issuetype = Story ORDER BY created DESC"
        req     == [Request("GET", "issue_search", "/rest/api/3/search", {200})
                        EXCEPT !.jql = jql, !.maxResults = {limit},
                               !.project_keys =
                                   IF Truthy(project) THEN {project} ELSE {}]
    IN
    IF Truthy(project) /\ ~IsStr(project) THEN Raise(TypeError)
    ELSE IF Truthy(project) /\ ~validate_project_key(project)
    THEN Return(InvalidProjectKey)
    ELSE IF Len(rs) = 0 THEN Send(req)
    ELSE LET response == rs[1] IN
         IF response.kind = "RequestError"
         THEN Return(ConnectionFailed(response))
         ELSE IF response.status_code = 200
         THEN IF ~response.body.json THEN Return(InvalidResponse)
              ELSE Return(<<"{\"stories\": [">>
                          \o issue_infos(response.body.issues)
                          \o <<"]}">>)
         ELSE IF response.status_code = 401 THEN Return(AuthFailed)
         ELSE IF response.status_code = 403 THEN Return(AccessDenied)
         ELSE Return(HttpCheck(response))

\* one character of urllib.parse.quote(s, safe=''): letters, digits and
\* "_", ".", "-", "~" stay, every other character becomes %XX
QuoteChar(c) ==
    CASE c = "\n" -> "%0A" [] c = " " -> "%20" [] c = "/" -> "%2F"
      [] OTHER -> c

\* urllib.parse.quote(s, safe='')
quote(s) == [i \in 1..Len(s) |-> QuoteChar(s[i])]

get_issue(args, rs) ==
    LET key == Get(args, "key", None)
        req == [Request("GET", "issue_detail",
                        "/rest/api/3/issue/" \o Str(quote(key)), {200})
                    EXCEPT !.issue_keys = {key}]
    IN
    IF ~Truthy(key)
    THEN Return(<<"Error:", " Missing required 'key' parameter">>)
    ELSE IF ~IsStr(key) THEN Raise(TypeError)
    ELSE IF ~validate_issue_key(key) THEN Return(InvalidIssueKey)
    ELSE IF Len(rs) = 0 THEN Send(req)
    ELSE LET response == rs[1] IN
         IF response.kind = "RequestError"
         THEN Return(ConnectionFailed(response))
         ELSE IF response.status_code = 200
         THEN IF ~response.body.json THEN Return(InvalidResponse)
              \* fields.get("status", {}).get("name", "Unknown")
              ELSE IF response.body.status = None
              THEN Return(<<"Error:", " Failed to process issue data - ",
                            AttributeErrorGet>>)
              ELSE Return(<<"{\"key\": ">>
                          \o json_dumps(Default(response.body.key, Unknown))
                          \o <<", \"summary\": ">>
                          \o json_dumps(Default(response.body.summary,
                                                NoSummary))
                          \o <<", \"status\": ..., \"created\": ...}">>)
         ELSE IF response.status_code = 404
         THEN Return(<<"Error:", " Issue '", Str(key),
                       "' not found. Check issue key and permissions.">>)
         ELSE IF response.status_code = 401 THEN Return(AuthFailed)
         ELSE IF response.status_code = 403 THEN Return(AccessDenied)
         ELSE Return(HttpCheck(response))

search_issues(args, rs) ==
    LET jql   == Get(args, "jql", None)
        limit == min(Get(args, "limit", 50), 100)
        req   == [Request("GET", "issue_search", "/rest/api/3/search", {200})
                      EXCEPT !.jql = Str(jql), !.maxResults = {limit}]
    IN
    IF ~Truthy(jql)
    THEN Return(<<"Error:", " Missing required 'jql' parameter">>)
    ELSE IF Len(rs) = 0 THEN Send(req)
    ELSE LET response == rs[1] IN
         IF response.kind = "RequestError"
         THEN Return(ConnectionFailed(response))
         ELSE IF response.status_code = 200
         THEN IF ~response.body.json THEN Return(InvalidResponse)
              ELSE Return(<<"{\"issues\": [">>
                          \o issue_infos(response.body.issues)
                          \o <<"]}">>)
         ELSE IF response.status_code = 400
         THEN Return(<<"Error:",
                       " Invalid JQL query syntax. Check your query and try again.">>)
         ELSE IF response.status_code = 401 THEN Return(AuthFailed)
         ELSE IF response.status_code = 403 THEN Return(AccessDenied)
         ELSE Return(HttpCheck(response))

get_project_stats(args, rs) ==
    LET project == Get(args, "project", None)
        req == [Request("GET", "search", "/rest/api/3/search", {200})
                    EXCEPT !.jql = "project = " \o Str(project),
                           !.maxResults = {1000},
                           !.project_keys = {project}]
    IN
    IF ~Truthy(project)
    THEN Return(<<"Error:", " Missing required 'project' parameter">>)
    ELSE IF ~IsStr(project) THEN Raise(TypeError)
    ELSE IF ~validate_project_key(project) THEN Return(InvalidProjectKey)
    ELSE IF Len(rs) = 0 THEN Send(req)
    ELSE LET response == rs[1] IN
         IF response.kind = "RequestError"
         THEN Return(ConnectionFailed(response))
         ELSE IF response.status_code = 200
         THEN IF ~response.body.json THEN Return(Unexpected(JSONDecodeError))
              ELSE Return(<<"{\"project\": ..., \"totalIssues\": ...}">>)
         ELSE IF response.status_code = 401 THEN Return(AuthFailed)
         ELSE IF response.status_code = 403 THEN Return(AccessDenied)
         ELSE Return(HttpCheck(response))

get_recent_issues(args, rs) ==
    LET days  == Get(args, "days", 7)
        limit == min(Get(args, "limit", 20), 100)
        req   == [Request("GET", "issue_search", "/rest/api/3/search", {200})
                      EXCEPT !.jql = "updated >= -" \o ToString(days)
                                        \o "d ORDER BY updated DESC",
                             !.maxResults = {limit}]
    IN
    IF Len(rs) = 0 THEN Send(req)
    ELSE LET response == rs[1] IN
         IF response.kind = "RequestError"
         THEN Return(ConnectionFailed(response))
         ELSE IF response.status_code = 200
         THEN IF ~response.body.json THEN Return(Unexpected(JSONDecodeError))
              ELSE Return(<<"{\"issues\": [">>
                          \o issue_infos(response.body.issues)
                          \o <<"]}">>)
         ELSE IF response.status_code = 401 THEN Return(AuthFailed)
         ELSE IF response.status_code = 403 THEN Return(AccessDenied)
         ELSE Return(HttpCheck(response))

get_issues_by_assignee(args, rs) ==
    LET assignee == Get(args, "assignee", None)
        limit    == min(Get(args, "limit", 50), 100)
        req == [Request("GET", "issue_search", "/rest/api/3/search", {200})
                    EXCEPT !.jql = "assignee = " \o Str(assignee)
                                      \o " ORDER BY updated DESC",
                           !.maxResults = {limit}]
    IN
    IF ~Truthy(assignee)
    THEN Return(<<"Error:", " Missing required 'assignee' parameter">>)
    ELSE IF Len(rs) = 0 THEN Send(req)
    ELSE LET response == rs[1] IN
         IF response.kind = "RequestError"
         THEN Return(ConnectionFailed(response))
         ELSE IF response.status_code = 200
         THEN IF ~response.body.json THEN Return(Unexpected(JSONDecodeError))
              ELSE Return(<<"{\"issues\": [">>
                          \o issue_infos(response.body.issues)
                          \o <<"]}">>)
         ELSE IF response.status_code = 400
         THEN Return(<<"Error:", " Invalid assignee or JQL query">>)
         ELSE IF response.status_code = 401 THEN Return(AuthFailed)
         ELSE IF response.status_code = 403 THEN Return(AccessDenied)
         ELSE Return(HttpCheck(response))

advanced_jql_search(args, rs) ==
    LET jql   == Get(args, "jql", None)
        limit == min(Get(args, "limit", 50), 100)
        req   == [Request("GET", "issue_search", "/rest/api/3/search", {200})
                      EXCEPT !.jql = Str(jql), !.maxResults = {limit}]
    IN
    IF ~Truthy(jql)
    THEN Return(<<"Error:", " Missing required 'jql' parameter">>)
    ELSE IF Len(rs) = 0 THEN Send(req)
    ELSE LET response == rs[1] IN
         IF response.kind = "RequestError"
         THEN Return(ConnectionFailed(response))
         ELSE IF response.status_code = 200
         THEN IF ~response.body.json THEN Return(InvalidResponse)
              ELSE Return(<<"{\"total\": ..., \"issues\": [">>
                          \o issue_infos(response.body.issues)
                          \o <<"]}">>)
         ELSE IF response.status_code = 400
         THEN Return(<<"Error:",
                       " Invalid JQL query syntax. Check your query and try again.">>)
         ELSE IF response.status_code = 401 THEN Return(AuthFailed)
         ELSE IF response.status_code = 403 THEN Return(AccessDenied)
         ELSE Return(HttpCheck(response))

(***************************************************************************)
(* The shape most handlers share (e.g. get_transitions, server.py          *)
(* 1510-1540): one request; the status `ok` gives the success text, after  *)
(* response.json() where the handler reads the body; any other status      *)
(* gives "Error: HTTP <status> - <text>"; httpx.RequestError and every     *)
(* other exception are caught and reported.                                *)
(***************************************************************************)
\* a variant of SingleRequest that tries once more after a failure
SingleRequest_retry(req, rs, ok, text) ==
    IF Len(rs) = 0 THEN Send(req)
    ELSE IF /\ Len(rs) = 1
            /\ \/ rs[1].kind = "RequestError"
               \/ rs[1].status_code # ok
    THEN Send(req)
    ELSE LET response == rs[Len(rs)] IN
         IF response.kind = "RequestError"
         THEN Return(ConnectionFailed(response))
         ELSE IF response.status_code = ok
         THEN IF ok \in req.parses /\ ~response.body.json
              THEN Return(Unexpected(JSONDecodeError))
              ELSE Return(text)
         ELSE Return(HttpError(response))

SingleRequest(req, rs, ok, text) ==
    IF Len(rs) = 0 THEN Send(req)
    ELSE LET response == rs[1] IN
         IF response.kind = "RequestError"
         THEN Return(ConnectionFailed(response))
         ELSE IF response.status_code = ok
         THEN IF ok \in req.parses /\ ~response.body.json
              THEN Return(Unexpected(JSONDecodeError))
              ELSE Return(text)
         ELSE Return(HttpError(response))

(***************************************************************************)
(* create_issue, update_issue (server.py 1102-1300).                       *)
(***************************************************************************)
\* the names of the truthy entries of args among names
Provided(args, names) == {f \in names : f \in DOMAIN args /\ Truthy(args[f])}

create_issue(args, rs) ==
    LET project == Get(args, "project", None)
        summary == Get(args, "summary", None)
        req == [Request("POST", "create", "/rest/api/3/issue", {201, 400})
                    EXCEPT !.fields =
                        {"project", "summary", "issuetype", "priority"}
                            \cup Provided(args, {"description", "assignee"}),
                           !.summary = summary]
    IN
    IF ~Truthy(project) \/ ~Truthy(summary)
    THEN Return(<<"Error:", " Missing required parameters 'project' and 'summary'">>)
    ELSE IF ~IsStr(project) THEN Raise(TypeError)
    ELSE IF ~validate_project_key(project) THEN Return(InvalidProjectKey)
    ELSE IF Len(rs) = 0 THEN Send(req)
    ELSE LET response == rs[1] IN
         IF response.kind = "RequestError"
         THEN Return(ConnectionFailed(response))
         ELSE IF response.status_code = 201
         THEN IF ~response.body.json THEN Return(Unexpected(JSONDecodeError))
              \* issue_key = created_issue["key"]
              ELSE IF response.body.key = None THEN Return(Unexpected("'key'"))
              ELSE LET issue_key == response.body.key
                       detail == [Request("GET", "issue_detail",
                                          "/rest/api/3/issue/" \o Str(issue_key),
                                          {200})
                                      EXCEPT !.issue_keys = {issue_key}]
                   IN
                   IF Len(rs) = 1 THEN Send(detail)
                   ELSE LET detail_response == rs[2] IN
                        IF detail_response.kind = "RequestError"
                        THEN Return(ConnectionFailed(detail_response))
                        ELSE IF detail_response.status_code = 200
                        THEN IF ~detail_response.body.json
                             THEN Return(Unexpected(JSONDecodeError))
                             ELSE Return(<<"Created issue ", Str(issue_key),
                                           ": ",
                                           Str(Default(
                                               detail_response.body.summary,
                                               NoSummary)),
                                           " ...">>)
                        ELSE Return(<<"Issue created (", Str(issue_key),
                                      ") but failed to fetch details">>)
         ELSE IF response.status_code = 400
         THEN IF ~response.body.json THEN Return(Unexpected(JSONDecodeError))
              ELSE Return(<<"Invalid issue data: ", BodyText>>)
         ELSE IF response.status_code = 401 THEN Return(AuthFailed)
         ELSE IF response.status_code = 403 THEN Return(AccessDenied)
         ELSE Return(HttpError(response))

update_issue(args, rs) ==
    LET key    == Get(args, "key", None)
        fields == Provided(args, {"summary", "description", "priority", "assignee"})
        req    == [Request("PUT", "update", "/rest/api/3/issue/" \o Str(key),
                           {400})
                       EXCEPT !.issue_keys = {key}, !.fields = fields]
        detail == [Request("GET", "issue", "/rest/api/3/issue/" \o Str(key),
                           {200})
                       EXCEPT !.issue_keys = {key}]
    IN
    IF ~Truthy(key)
    THEN Return(<<"Error:", " Missing required parameter 'key'">>)
    ELSE IF ~IsStr(key) THEN Raise(TypeError)
    ELSE IF ~validate_issue_key(key) THEN Return(InvalidIssueKey)
    ELSE IF fields = {}
    THEN Return(<<"Error:", " No fields provided to update">>)
    ELSE IF Len(rs) = 0 THEN Send(req)
    ELSE LET response == rs[1] IN
         IF response.kind = "RequestError"
         THEN Return(ConnectionFailed(response))
         ELSE IF response.status_code = 204
         THEN IF Len(rs) = 1 THEN Send(detail)
              ELSE LET detail_response == rs[2] IN
                   IF detail_response.kind = "RequestError"
                   THEN Return(ConnectionFailed(detail_response))
                   ELSE IF detail_response.status_code = 200
                   THEN IF ~detail_response.body.json
                        THEN Return(Unexpected(JSONDecodeError))
                        ELSE Return(<<"Updated issue ", Str(key),
                                      ": <summary> ...">>)
                   ELSE Return(<<"Issue updated but failed to fetch details">>)
         ELSE IF response.status_code = 400
         THEN IF ~response.body.json THEN Return(Unexpected(JSONDecodeError))
              ELSE Return(<<"Invalid update data: ", BodyText>>)
         ELSE IF response.status_code = 404
         THEN Return(<<"Error:", " Issue '", Str(key),
                       "' not found. Check issue key and permissions.">>)
         ELSE IF response.status_code = 401 THEN Return(AuthFailed)
         ELSE IF response.status_code = 403 THEN Return(AccessDenied)
         ELSE Return(HttpError(response))

(***************************************************************************)
(* Transitions (server.py 1420-1540).                                      *)
(***************************************************************************)
\* one character of str.lower()
LowerChar(c) ==
    CASE c = "A" -> "a" [] c = "B" -> "b" [] c = "C" -> "c" [] c = "D" -> "d"
      [] c = "E" -> "e" [] c = "F" -> "f" [] c = "G" -> "g" [] c = "H" -> "h"
      [] c = "I" -> "i" [] c = "J" -> "j" [] c = "K" -> "k" [] c = "L" -> "l"
      [] c = "M" -> "m" [] c = "N" -> "n" [] c = "O" -> "o" [] c = "P" -> "p"
      [] c = "Q" -> "q" [] c = "R" -> "r" [] c = "S" -> "s" [] c = "T" -> "t"
      [] c = "U" -> "u" [] c = "V" -> "v" [] c = "W" -> "w" [] c = "X" -> "x"
      [] c = "Y" -> "y" [] c = "Z" -> "z" [] OTHER -> c

\* str.lower()
Lower(s) == [i \in 1..Len(s) |-> LowerChar(s[i])]

\* a variant of FindTransition without the break: the last match wins
FindTransition_last(available_transitions, transition) ==
    LET hits == {i \in 1..Len(available_transitions) :
                    \/ Lower(available_transitions[i].name) = Lower(transition)
                    \/ available_transitions[i].id = transition}
    IN IF hits = {} THEN None
       ELSE available_transitions[CHOOSE i \in hits : \A j \in hits : i >= j].id

\* the loop "for t in available_transitions: if (t.get("name", "").lower()
\* == transition.lower() or t.get("id") == transition): transition_id =
\* t.get("id"); break", transition_id starting as None
FindTransition(available_transitions, transition) ==
    LET hits == {i \in 1..Len(available_transitions) :
                    \/ Lower(available_transitions[i].name) = Lower(transition)
                    \/ available_transitions[i].id = transition}
    IN IF hits = {} THEN None
       ELSE available_transitions[CHOOSE i \in hits : \A j \in hits : i <= j].id

transition_issue(args, rs) ==
    LET key        == Get(args, "key", None)
        transition == Get(args, "transition", None)
        path       == "/rest/api/3/issue/" \o Str(key) \o "/transitions"
        req  == [Request("GET", "transitions", path, {200})
                     EXCEPT !.issue_keys = {key}]
        post == [Request("POST", "do_transition", path, {})
                     EXCEPT !.issue_keys = {key}]
        detail == [Request("GET", "issue", "/rest/api/3/issue/" \o Str(key),
                           {200})
                       EXCEPT !.issue_keys = {key}]
    IN
    IF ~Truthy(key) \/ ~Truthy(transition)
    THEN Return(<<"Error:", " Missing required parameters 'key' and 'transition'">>)
    ELSE IF ~IsStr(key) THEN Raise(TypeError)
    ELSE IF ~validate_issue_key(key) THEN Return(InvalidIssueKey)
    ELSE IF Len(rs) = 0 THEN Send(req)
    ELSE LET transitions_response == rs[1] IN
         IF transitions_response.kind = "RequestError"
         THEN Return(ConnectionFailed(transitions_response))
         ELSE IF transitions_response.status_code # 200
         THEN Return(<<"Error:", " Failed to get transitions - ",
                       ToString(transitions_response.status_code)>>)
         ELSE IF ~transitions_response.body.json
         THEN Return(Unexpected(JSONDecodeError))
         ELSE LET transition_id ==
                      FindTransition(transitions_response.body.transitions,
                                     transition)
              IN
              IF ~Truthy(transition_id)
              THEN Return(<<"Error:", " Transition '", Str(transition),
                            "' not available. Available: ...">>)
              ELSE IF Len(rs) = 1
              THEN Send([post EXCEPT !.fields = {Str(transition_id)}])
              ELSE LET response == rs[2] IN
                   IF response.kind = "RequestError"
                   THEN Return(ConnectionFailed(response))
                   ELSE IF response.status_code = 204
                   THEN IF Len(rs) = 2 THEN Send(detail)
                        ELSE LET detail_response == rs[3] IN
                             IF detail_response.kind = "RequestError"
                             THEN Return(ConnectionFailed(detail_response))
                             ELSE IF detail_response.status_code = 200
                             THEN IF ~detail_response.body.json
                                  THEN Return(Unexpected(JSONDecodeError))
                                  ELSE Return(<<"Transitioned issue ", Str(key),
                                                " to <status> ...">>)
                             ELSE Return(<<"Issue transitioned but failed to fetch details">>)
                   ELSE Return(HttpError(response))

get_transitions(args, rs) ==
    LET key == Get(args, "key", None)
        req == [Request("GET", "transitions",
                        "/rest/api/3/issue/" \o Str(key) \o "/transitions",
                        {200})
                    EXCEPT !.issue_keys = {key}]
    IN
    IF ~Truthy(key)
    THEN Return(<<"Error:", " Missing required parameter 'key'">>)
    ELSE IF ~IsStr(key) THEN Raise(TypeError)
    ELSE IF ~validate_issue_key(key) THEN Return(InvalidIssueKey)
    ELSE SingleRequest(req, rs, 200, <<"{\"issue\": ..., \"availableTransitions\": [...]}">>)

(***************************************************************************)
(* Single-request tools on one issue (server.py 1542-1647, 1890-1931,      *)
(* 2279-2382, 2543-2685).                                                  *)
(***************************************************************************)
add_comment(args, rs) ==
    LET key == Get(args, "key", None)
        comment == Get(args, "comment", None)
        req == [Request("POST", "comment",
                        "/rest/api/3/issue/" \o Str(key) \o "/comment",
                        {201})
                    EXCEPT !.issue_keys = {key}]
    IN
    IF ~Truthy(key) \/ ~Truthy(comment)
    THEN Return(<<"Error:", " Missing required parameters 'key' and 'comment'">>)
    ELSE IF ~IsStr(key) THEN Raise(TypeError)
    ELSE IF ~validate_issue_key(key) THEN Return(InvalidIssueKey)
    ELSE SingleRequest(req, rs, 201, <<"Added comment to issue ...">>)

list_attachments(args, rs) ==
    LET key == Get(args, "key", None)
        req == [Request("GET", "issue",
                        "/rest/api/3/issue/" \o Str(key) \o "?fields=attachment",
                        {200})
                    EXCEPT !.issue_keys = {key}]
    IN
    IF ~Truthy(key)
    THEN Return(<<"Error:", " Missing required parameter 'key'">>)
    ELSE IF ~IsStr(key) THEN Raise(TypeError)
    ELSE IF ~validate_issue_key(key) THEN Return(InvalidIssueKey)
    ELSE SingleRequest(req, rs, 200, <<"{\"issue\": ..., \"attachments\": [...]}">>)

assign_issue(args, rs) ==
    LET key == Get(args, "key", None)
        req == [Request("PUT", "update", "/rest/api/3/issue/" \o Str(key), {})
                    EXCEPT !.issue_keys = {key}, !.fields = {"assignee"}]
    IN
    IF ~Truthy(key)
    THEN Return(<<"Error:", " Missing required parameter 'key'">>)
    ELSE IF ~IsStr(key) THEN Raise(TypeError)
    ELSE IF ~validate_issue_key(key) THEN Return(InvalidIssueKey)
    ELSE SingleRequest(req, rs, 204, <<"Assigned issue ", Str(key), " to ...">>)

get_subtasks(args, rs) ==
    LET key == Get(args, "key", None)
        req == [Request("GET", "issue",
                        "/rest/api/3/issue/" \o Str(key) \o "?fields=subtasks",
                        {200})
                    EXCEPT !.issue_keys = {key}]
    IN
    IF ~Truthy(key)
    THEN Return(<<"Error:", " Missing required parameter 'key'">>)
    ELSE IF ~IsStr(key) THEN Raise(TypeError)
    ELSE IF ~validate_issue_key(key) THEN Return(InvalidIssueKey)
    ELSE SingleRequest(req, rs, 200, <<"{\"parentIssue\": ..., \"subtasks\": [...]}">>)

add_worklog(args, rs) ==
    LET key == Get(args, "key", None)
        time_spent == Get(args, "time_spent", None)
        req == [Request("POST", "worklog",
                        "/rest/api/3/issue/" \o Str(key) \o "/worklog",
                        {201})
                    EXCEPT !.issue_keys = {key}]
    IN
    IF ~Truthy(key) \/ ~Truthy(time_spent)
    THEN Return(<<"Error:", " Missing required parameters 'key' and 'time_spent'">>)
    ELSE IF ~IsStr(key) THEN Raise(TypeError)
    ELSE IF ~validate_issue_key(key) THEN Return(InvalidIssueKey)
    ELSE SingleRequest(req, rs, 201, <<"Added worklog to issue ...">>)

add_watcher(args, rs) ==
    LET key == Get(args, "key", None)
        username == Get(args, "username", None)
        req == [Request("POST", "watchers",
                        "/rest/api/3/issue/" \o Str(key) \o "/watchers",
                        {})
                    EXCEPT !.issue_keys = {key}]
    IN
    IF ~Truthy(key) \/ ~Truthy(username)
    THEN Return(<<"Error:", " Missing required parameters 'key' and 'username'">>)
    ELSE IF ~IsStr(key) THEN Raise(TypeError)
    ELSE IF ~validate_issue_key(key) THEN Return(InvalidIssueKey)
    ELSE SingleRequest(req, rs, 204, <<"Added watcher to issue ...">>)

get_watchers(args, rs) ==
    LET key == Get(args, "key", None)
        req == [Request("GET", "watchers",
                        "/rest/api/3/issue/" \o Str(key) \o "/watchers",
                        {200})
                    EXCEPT !.issue_keys = {key}]
    IN
    IF ~Truthy(key)
    THEN Return(<<"Error:", " Missing required parameter 'key'">>)
    ELSE IF ~IsStr(key) THEN Raise(TypeError)
    ELSE IF ~validate_issue_key(key) THEN Return(InvalidIssueKey)
    ELSE SingleRequest(req, rs, 200, <<"{\"issue\": ..., \"watchers\": [...]}">>)

get_issue_links(args, rs) ==
    LET key == Get(args, "key", None)
        req == [Request("GET", "issue",
                        "/rest/api/3/issue/" \o Str(key) \o "?fields=issuelinks",
                        {200})
                    EXCEPT !.issue_keys = {key}]
    IN
    IF ~Truthy(key)
    THEN Return(<<"Error:", " Missing required parameter 'key'">>)
    ELSE IF ~IsStr(key) THEN Raise(TypeError)
    ELSE IF ~validate_issue_key(key) THEN Return(InvalidIssueKey)
    ELSE SingleRequest(req, rs, 200, <<"{\"issue\": ..., \"links\": [...]}">>)

(***************************************************************************)
(* Single-request tools on one project (server.py 1649-1692, 1933-2020,    *)
(* 2384-2427, 2751-2852, 2957-3044).                                       *)
(***************************************************************************)
get_issue_types(args, rs) ==
    LET project == Get(args, "project", None)
        req == [Request("GET", "project",
                        "/rest/api/3/project/" \o Str(project),
                        {200})
                    EXCEPT !.project_keys = {project}]
    IN
    IF ~Truthy(project)
    THEN Return(<<"Error:", " Missing required parameter 'project'">>)
    ELSE IF ~IsStr(project) THEN Raise(TypeError)
    ELSE IF ~validate_project_key(project) THEN Return(InvalidProjectKey)
    ELSE SingleRequest(req, rs, 200, <<"{\"project\": ..., \"issueTypes\": [...]}">>)

get_project_components(args, rs) ==
    LET project == Get(args, "project", None)
        req == [Request("GET", "project",
                        "/rest/api/3/project/" \o Str(project) \o "/components",
                        {200})
                    EXCEPT !.project_keys = {project}]
    IN
    IF ~Truthy(project)
    THEN Return(<<"Error:", " Missing required parameter 'project'">>)
    ELSE IF ~IsStr(project) THEN Raise(TypeError)
    ELSE IF ~validate_project_key(project) THEN Return(InvalidProjectKey)
    ELSE SingleRequest(req, rs, 200, <<"{\"project\": ..., \"components\": [...]}">>)

get_project_versions(args, rs) ==
    LET project == Get(args, "project", None)
        req == [Request("GET", "project",
                        "/rest/api/3/project/" \o Str(project) \o "/versions",
                        {200})
                    EXCEPT !.project_keys = {project}]
    IN
    IF ~Truthy(project)
    THEN Return(<<"Error:", " Missing required parameter 'project'">>)
    ELSE IF ~IsStr(project) THEN Raise(TypeError)
    ELSE IF ~validate_project_key(project) THEN Return(InvalidProjectKey)
    ELSE SingleRequest(req, rs, 200, <<"{\"project\": ..., \"versions\": [...]}">>)

get_users(args, rs) ==
    LET project == Get(args, "project", None)
        req == [Request("GET", "users",
                        "/rest/api/3/user/assignable/search?project=" \o Str(project),
                        {200})
                    EXCEPT !.project_keys = {project}]
    IN
    IF ~Truthy(project)
    THEN Return(<<"Error:", " Missing required parameter 'project'">>)
    ELSE IF ~IsStr(project) THEN Raise(TypeError)
    ELSE IF ~validate_project_key(project) THEN Return(InvalidProjectKey)
    ELSE SingleRequest(req, rs, 200, <<"{\"project\": ..., \"users\": [...]}">>)

get_time_tracking_report(args, rs) ==
    LET project == Get(args, "project", None)
        req == [Request("GET", "search",
                        "/rest/api/3/search?jql=project=" \o Str(project) \o "&fields=key,summary,worklog,timetracking",
                        {200})
                    EXCEPT !.project_keys = {project}]
    IN
    IF ~Truthy(project)
    THEN Return(<<"Error:", " Missing required parameter 'project'">>)
    ELSE IF ~IsStr(project) THEN Raise(TypeError)
    ELSE IF ~validate_project_key(project) THEN Return(InvalidProjectKey)
    ELSE SingleRequest(req, rs, 200, <<"{\"project\": ..., \"totalLoggedHours\": ...}">>)

get_project_roles(args, rs) ==
    LET project == Get(args, "project", None)
        req == [Request("GET", "project",
                        "/rest/api/3/project/" \o Str(project) \o "/role",
                        {200})
                    EXCEPT !.project_keys = {project}]
    IN
    IF ~Truthy(project)
    THEN Return(<<"Error:", " Missing required parameter 'project'">>)
    ELSE IF ~IsStr(project) THEN Raise(TypeError)
    ELSE IF ~validate_project_key(project) THEN Return(InvalidProjectKey)
    ELSE SingleRequest(req, rs, 200, <<"{\"project\": ..., \"roles\": [...]}">>)

create_version(args, rs) ==
    LET project == Get(args, "project", None)
        name    == Get(args, "name", None)
        req     == Request("POST", "version", "/rest/api/3/version", {201})
    IN
    IF ~Truthy(project) \/ ~Truthy(name)
    THEN Return(<<"Error:", " Missing required parameters 'project' and 'name'">>)
    ELSE IF ~IsStr(project) THEN Raise(TypeError)
    ELSE IF ~validate_project_key(project) THEN Return(InvalidProjectKey)
    ELSE SingleRequest(req, rs, 201, <<"Created version: ...">>)

get_user_permissions(args, rs) ==
    LET project  == Get(args, "project", None)
        username == Get(args, "username", None)
        req == [Request("GET", "permissions",
                        "/rest/api/3/mypermissions?projectKey=" \o Str(project),
                        {200})
                    EXCEPT !.project_keys = {project}]
    IN
    IF ~Truthy(project) \/ ~Truthy(username)
    THEN Return(<<"Error:", " Missing required parameters">>)
    ELSE IF ~IsStr(project) THEN Raise(TypeError)
    ELSE IF ~validate_project_key(project) THEN Return(InvalidProjectKey)
    ELSE SingleRequest(req, rs, 200, <<"{\"project\": ..., \"permissions\": {...}}">>)

(***************************************************************************)
(* Single-request tools without a key (server.py 2022-2101, 2156-2233,     *)
(* 2507-2541, 2854-2955, 3046-3228).                                       *)
(***************************************************************************)
get_custom_fields(args, rs) ==
    SingleRequest(Request("GET", "field", "/rest/api/3/field", {200}),
                  rs, 200, <<"{\"totalCustomFields\": ..., \"customFields\": [...]}">>)

get_boards(args, rs) ==
    SingleRequest(Request("GET", "board", "/rest/agile/1.0/board", {200}),
                  rs, 200, <<"{\"boards\": [...]}">>)

list_webhooks(args, rs) ==
    SingleRequest(Request("GET", "webhook", "/rest/webhooks/1.0/webhook", {200}),
                  rs, 200, <<"{\"webhookCount\": ..., \"webhooks\": [...]}">>)

get_workflows(args, rs) ==
    SingleRequest(Request("GET", "workflow", "/rest/api/3/workflow/search", {200}),
                  rs, 200, <<"{\"workflowCount\": ..., \"workflows\": [...]}">>)

get_sprints(args, rs) ==
    LET board_id == Get(args, "board_id", None)
        req == Request("GET", "sprint",
                       "/rest/agile/1.0/board/" \o Show(board_id) \o "/sprint", {200})
    IN
    IF ~Truthy(board_id)
    THEN Return(<<"Error:", " Missing required parameter 'board_id'">>)
    ELSE SingleRequest(req, rs, 200, <<"{\"boardId\": ..., \"sprints\": [...]}">>)

get_sprint_issues(args, rs) ==
    LET sprint_id == Get(args, "sprint_id", None)
        req == Request("GET", "sprint",
                       "/rest/agile/1.0/sprint/" \o Show(sprint_id) \o "/issue", {200})
    IN
    IF ~Truthy(sprint_id)
    THEN Return(<<"Error:", " Missing required parameter 'sprint_id'">>)
    ELSE SingleRequest(req, rs, 200, <<"{\"sprintId\": ..., \"issues\": [...]}">>)

get_burndown_data(args, rs) ==
    LET sprint_id == Get(args, "sprint_id", None)
        req == Request("GET", "sprint",
                       "/rest/agile/1.0/sprint/" \o Show(sprint_id) \o "/issue?fields=summary,status,customfield_10016", {200})
    IN
    IF ~Truthy(sprint_id)
    THEN Return(<<"Error:", " Missing required parameter 'sprint_id'">>)
    ELSE SingleRequest(req, rs, 200, <<"{\"sprintId\": ..., \"totalStoryPoints\": ...}">>)

release_version(args, rs) ==
    LET version_id == Get(args, "version_id", None)
        req == Request("PUT", "version",
                       "/rest/api/3/version/" \o Show(version_id), {200})
    IN
    IF ~Truthy(version_id)
    THEN Return(<<"Error:", " Missing required parameter 'version_id'">>)
    ELSE SingleRequest(req, rs, 200, <<"Released version: ...">>)

\* str(e) of the AttributeError None.lower() raises
AttributeError == "'NoneType' object has no attribute 'lower'"

export_issues(args, rs) ==
    LET jql == Get(args, "jql", None)
        format_type == Lower(Get(args, "format", <<"j","s","o","n">>))
        req == [Request("GET", "search",
                        "/rest/api/3/search?jql=" \o Show(jql) \o "&maxResults=100",
                        {200})
                    EXCEPT !.jql = Show(jql)]
    IN
    \* args.get("format", "json").lower()
    IF ~IsStr(Get(args, "format", <<"j","s","o","n">>)) THEN Raise(AttributeError)
    ELSE IF ~Truthy(jql)
    THEN Return(<<"Error:", " Missing required parameter 'jql'">>)
    ELSE SingleRequest(req, rs, 200,
                       IF format_type = <<"c","s","v">>
                       THEN <<"Key,Summary,Status,Assignee,Priority", "..."  >>
                       ELSE <<"{\"exportDate\": \"now\", \"issues\": [...]}">>)

create_webhook(args, rs) ==
    LET name   == Get(args, "name", None)
        url    == Get(args, "url", None)
        events == Get(args, "events", <<>>)
        req    == Request("POST", "webhook", "/rest/webhooks/1.0/webhook", {201})
    IN
    IF ~Truthy(name) \/ ~Truthy(url) \/ Len(events) = 0
    THEN Return(<<"Error:", " Missing required parameters">>)
    ELSE SingleRequest(req, rs, 201, <<"Created webhook: ...">>)

link_issues(args, rs) ==
    LET inward_key  == Get(args, "inward_key", None)
        outward_key == Get(args, "outward_key", None)
        link_type   == Get(args, "link_type", None)
        req == Request("POST", "issueLink", "/rest/api/3/issueLink", {})
    IN
    IF ~Truthy(inward_key) \/ ~Truthy(outward_key) \/ ~Truthy(link_type)
    THEN Return(<<"Error:", " Missing required parameters">>)
    ELSE IF ~IsStr(inward_key) THEN Raise(TypeError)
    ELSE IF validate_issue_key(inward_key) /\ ~IsStr(outward_key)
    THEN Raise(TypeError)
    ELSE IF ~validate_issue_key(inward_key) \/ ~validate_issue_key(outward_key)
    THEN Return(InvalidIssueKey)
    ELSE SingleRequest(req, rs, 201, <<"Linked issues: ...">>)

RECURSIVE project_infos(_)
\* the list 'projects' built from projects_data: an entry whose lead is
\* not a dict raises inside the loop and is skipped
project_infos(projects_data) ==
    IF projects_data = <<>> THEN <<>>
    ELSE LET project == Head(projects_data) IN
         (IF project.lead = "str" THEN <<>>
          ELSE <<"{\"key\": ">>
                   \o json_dumps(Default(project.key, Unknown))
                   \o <<", \"name\": ">>
                   \o json_dumps(Default(project.name, NoName))
                   \o <<", \"projectTypeKey\": ..., \"lead\": ...}">>)
             \o project_infos(Tail(projects_data))

\* a variant of get_projects whose list 'projects' outlives the call: the
\* entries of the call before are still in it
get_projects_keeping(args, rs) ==
    IF Len(rs) = 0
    THEN Send(Request("GET", "project_list", "/rest/api/3/project", {200}))
    ELSE LET response == rs[1] IN
         IF response.kind = "RequestError"
         THEN Return(ConnectionFailed(response))
         ELSE IF response.status_code = 200
         THEN IF ~response.body.json THEN Return(InvalidResponse)
              ELSE Return(<<"{\"projects\": [">>
                          \o (IF last.name = "get_projects"
                              THEN project_infos(last.projects) ELSE <<>>)
                          \o project_infos(response.body.projects)
                          \o <<"]}">>)
         ELSE IF response.status_code = 401 THEN Return(AuthFailed)
         ELSE IF response.status_code = 403 THEN Return(AccessDenied)
         ELSE Return(HttpCheck(response))

get_projects(args, rs) ==
    IF Len(rs) = 0
    THEN Send(Request("GET", "project_list", "/rest/api/3/project", {200}))
    ELSE LET response == rs[1] IN
         IF response.kind = "RequestError"
         THEN Return(ConnectionFailed(response))
         ELSE IF response.status_code = 200
         THEN IF ~response.body.json THEN Return(InvalidResponse)
              ELSE Return(<<"{\"projects\": [">>
                          \o project_infos(response.body.projects)
                          \o <<"]}">>)
         ELSE IF response.status_code = 401 THEN Return(AuthFailed)
         ELSE IF response.status_code = 403 THEN Return(AccessDenied)
         ELSE Return(HttpCheck(response))

(***************************************************************************)
(* Attachments (server.py 1740-1826).                                      *)
(***************************************************************************)
\* a path at which os.path.exists() finds a file
ExistingFile == <<"f">>

\* os.path.dirname(path) is not the empty string
HasDirname(path) == \E i \in 1..Len(path) : path[i] = "/"

\* str(e) of the FileNotFoundError os.makedirs('') raises
FileNotFoundError == "[Errno 2] No such file or directory: ''"

upload_attachment(args, rs) ==
    LET key       == Get(args, "key", None)
        file_path == Get(args, "file_path", None)
        req == [Request("POST", "upload",
                        "/rest/api/3/issue/" \o Str(key) \o "/attachments",
                        {200})
                    EXCEPT !.issue_keys = {key}]
    IN
    IF ~Truthy(key) \/ ~Truthy(file_path)
    THEN Return(<<"Error:", " Missing required parameters 'key' and 'file_path'">>)
    ELSE IF ~IsStr(key) THEN Raise(TypeError)
    ELSE IF ~validate_issue_key(key) THEN Return(InvalidIssueKey)
    ELSE IF file_path # ExistingFile
    THEN Return(<<"Error:", " File not found: ", Str(file_path)>>)
    ELSE IF Len(rs) = 0 THEN Send(req)
    ELSE LET response == rs[1] IN
         IF response.kind = "RequestError"
         THEN Return(ConnectionFailed(response))
         ELSE IF response.status_code = 200
         THEN IF ~response.body.json THEN Return(Unexpected(JSONDecodeError))
              ELSE IF ~response.body.empty
              THEN Return(<<"Uploaded attachment to issue ", Str(key), " ...">>)
              ELSE Return(<<"Upload completed but no attachment data returned">>)
         ELSE Return(HttpError(response))

\* attachment_url is <<origin, path>>; the request goes to that URL as given
download_attachment(args, rs) ==
    LET attachment_url == Get(args, "attachment_url", None)
        save_path      == Get(args, "save_path", None)
        req == [Request("GET", "attachment", attachment_url[2], {})
                    EXCEPT !.base = attachment_url[1]]
    IN
    IF ~Truthy(attachment_url) \/ ~Truthy(save_path)
    THEN Return(<<"Error:", " Missing required parameters 'attachment_url' and 'save_path'">>)
    ELSE IF Len(rs) = 0 THEN Send(req)
    ELSE LET response == rs[1] IN
         IF response.kind = "RequestError"
         THEN Return(ConnectionFailed(response))
         ELSE IF response.status_code = 200
         \* os.makedirs(os.path.dirname(save_path), exist_ok=True)
         THEN IF ~HasDirname(save_path) THEN Return(Unexpected(FileNotFoundError))
              ELSE Return(<<"Downloaded attachment", "Saved to: ", Str(save_path)>>)
         ELSE Return(HttpError(response))

(***************************************************************************)
(* Bulk tools (server.py 1694-1738, 1828-1888, 2103-2154).                 *)
(***************************************************************************)
\* index of the first key of keys that fails validate_issue_key, else 0
FirstInvalid(keys) ==
    LET bad == {i \in 1..Len(keys) : ~validate_issue_key(keys[i])} IN
    IF bad = {} THEN 0 ELSE CHOOSE i \in bad : \A j \in bad : i <= j

\* one line of bulk_update_issues' results: <<mark, key, message>>
UpdateEntry(key, response) ==
    IF response.kind = "RequestError"
    THEN <<"[failed] ", Str(key), ": Error - " \o response.msg>>
    ELSE IF response.status_code = 204
    THEN <<"[ok] ", Str(key), ": Updated successfully">>
    ELSE <<"[failed] ", Str(key),
           ": Failed - " \o ToString(response.status_code)>>

\* the lines the parked call has appended so far, were it a bulk update
ParkedEntries ==
    IF parked.name # "bulk_update_issues" THEN <<>>
    ELSE [k \in 1..(3 * Len(parked.resps)) |->
             UpdateEntry(parked.args["keys"][((k - 1) \div 3) + 1],
                         parked.resps[((k - 1) \div 3) + 1])[((k - 1) % 3) + 1]]

RECURSIVE UpdateEntries_shared(_, _, _)
\* a variant of UpdateEntries whose list 'results' is a module global: the
\* lines of the other call in flight are in it too
UpdateEntries_shared(keys, rs, i) ==
    IF i > Len(keys) THEN ParkedEntries
    ELSE UpdateEntry(keys[i], rs[i]) \o UpdateEntries_shared(keys, rs, i + 1)

RECURSIVE UpdateEntries(_, _, _)
\* the lines for keys[i..], key j answered by rs[j]
UpdateEntries(keys, rs, i) ==
    IF i > Len(keys) THEN <<>>
    ELSE UpdateEntry(keys[i], rs[i]) \o UpdateEntries(keys, rs, i + 1)

\* a variant of bulk_update_issues that walks the keys from the last one
bulk_update_issues_reversed(args, rs) ==
    LET keys    == Get(args, "keys", <<>>)
        updates == Get(args, "updates", <<>>)
        fields  == {updates[i] : i \in 1..Len(updates)}
                       \cap {"priority", "assignee", "summary"}
        key     == keys[Len(keys) - Len(rs)]
        req == [Request("PUT", "update", "/rest/api/3/issue/" \o Str(key), {})
                    EXCEPT !.issue_keys = {key}, !.fields = fields]
        back == [i \in 1..Len(keys) |-> keys[Len(keys) + 1 - i]]
    IN
    IF Len(keys) = 0 \/ Len(updates) = 0
    THEN Return(<<"Error:", " Missing required parameters 'keys' and 'updates'">>)
    ELSE IF FirstInvalid(keys) # 0
    THEN Return(<<"Error:", " Invalid issue key format: ",
                  Str(keys[FirstInvalid(keys)])>>)
    ELSE IF Len(rs) < Len(keys) THEN Send(req)
    ELSE Return(<<"Bulk update results (", ToString(Len(keys)), " issues):">>
                    \o UpdateEntries(back, rs, 1))

\* a variant of bulk_update_issues that gives up at the first key whose
\* update fails
bulk_update_issues_abort(args, rs) ==
    LET keys    == Get(args, "keys", <<>>)
        updates == Get(args, "updates", <<>>)
        failed  == {i \in 1..Len(rs) :
                       \/ rs[i].kind = "RequestError"
                       \/ rs[i].status_code # 204}
        key     == keys[Len(rs) + 1]
        req == [Request("PUT", "update", "/rest/api/3/issue/" \o Str(key), {})
                    EXCEPT !.issue_keys = {key}]
    IN
    IF Len(keys) = 0 \/ Len(updates) = 0
    THEN Return(<<"Error:", " Missing required parameters 'keys' and 'updates'">>)
    ELSE IF FirstInvalid(keys) # 0
    THEN Return(<<"Error:", " Invalid issue key format: ",
                  Str(keys[FirstInvalid(keys)])>>)
    ELSE IF failed = {} /\ Len(rs) < Len(keys) THEN Send(req)
    ELSE Return(<<"Bulk update results (", ToString(Len(keys)), " issues):">>
                    \o UpdateEntries(SubSeq(keys, 1, Len(rs)), rs, 1))

bulk_update_issues(args, rs) ==
    LET keys    == Get(args, "keys", <<>>)
        \* the dict 'updates', as the sequence of its keys
        updates == Get(args, "updates", <<>>)
        fields  == {updates[i] : i \in 1..Len(updates)}
                       \cap {"priority", "assignee", "summary"}
        key     == keys[Len(rs) + 1]
        req == [Request("PUT", "update", "/rest/api/3/issue/" \o Str(key), {})
                    EXCEPT !.issue_keys = {key}, !.fields = fields]
    IN
    IF Len(keys) = 0 \/ Len(updates) = 0
    THEN Return(<<"Error:", " Missing required parameters 'keys' and 'updates'">>)
    ELSE IF FirstInvalid(keys) # 0
    THEN Return(<<"Error:", " Invalid issue key format: ",
                  Str(keys[FirstInvalid(keys)])>>)
    ELSE IF Len(rs) < Len(keys) THEN Send(req)
    ELSE Return(<<"Bulk update results (", ToString(Len(keys)), " issues):">>
                    \o UpdateEntries(keys, rs, 1))

RECURSIVE TransitionLoop(_, _, _, _, _, _)
\* the loop body of bulk_transition_issues for keys[i..], the responses
\* rs[j..] not yet consumed, results the lines collected so far
TransitionLoop(keys, transition, rs, i, j, results) ==
    IF i > Len(keys)
    THEN Return(<<"Bulk transition results (", ToString(Len(keys)), " issues):">>
                    \o results)
    ELSE
    LET key  == keys[i]
        path == "/rest/api/3/issue/" \o Str(key) \o "/transitions"
        get  == [Request("GET", "transitions", path, {200})
                     EXCEPT !.issue_keys = {key}]
        post == [Request("POST", "do_transition", path, {})
                     EXCEPT !.issue_keys = {key}]
        next(k, line) ==
            TransitionLoop(keys, transition, rs, i + 1, k,
                           results \o <<line[1], Str(key), line[2]>>)
    IN
    IF j > Len(rs) THEN Send(get)
    ELSE LET transitions_response == rs[j] IN
         IF transitions_response.kind = "RequestError"
         THEN next(j + 1, <<"[failed] ", ": Error - " \o transitions_response.msg>>)
         ELSE IF transitions_response.status_code # 200
         THEN next(j + 1, <<"[failed] ", ": Failed to get transitions">>)
         ELSE IF ~transitions_response.body.json
         THEN next(j + 1, <<"[failed] ", ": Error - " \o JSONDecodeError>>)
         ELSE LET transition_id ==
                      FindTransition(transitions_response.body.transitions,
                                     transition)
              IN
              IF ~Truthy(transition_id)
              THEN next(j + 1, <<"[failed] ", ": Transition '" \o Str(transition)
                                                 \o "' not available">>)
              ELSE IF j + 1 > Len(rs)
              THEN Send([post EXCEPT !.fields = {Str(transition_id)}])
              ELSE LET response == rs[j + 1] IN
                   IF response.kind = "RequestError"
                   THEN next(j + 2, <<"[failed] ", ": Error - " \o response.msg>>)
                   ELSE IF response.status_code = 204
                   THEN next(j + 2, <<"[ok] ", ": Transitioned to "
                                                   \o Str(transition)>>)
                   ELSE next(j + 2, <<"[failed] ", ": Failed - "
                                        \o ToString(response.status_code)>>)

bulk_transition_issues(args, rs) ==
    LET keys       == Get(args, "keys", <<>>)
        transition == Get(args, "transition", None)
    IN
    IF Len(keys) = 0 \/ ~Truthy(transition)
    THEN Return(<<"Error:", " Missing required parameters 'keys' and 'transition'">>)
    ELSE IF FirstInvalid(keys) # 0
    THEN Return(<<"Error:", " Invalid issue key format: ",
                  Str(keys[FirstInvalid(keys)])>>)
    ELSE TransitionLoop(keys, transition, rs, 1, 1, <<>>)

add_to_sprint(args, rs) ==
    LET sprint_id == Get(args, "sprint_id", None)
        keys      == Get(args, "keys", <<>>)
        n         == Len(keys)
        got       == IF Len(rs) <= n THEN Len(rs) ELSE n
        \* lookups that end the try block: transport failure, or a 200
        \* whose body response.json() cannot parse
        broken    == {i \in 1..got :
                         \/ rs[i].kind = "RequestError"
                         \/ rs[i].status_code = 200 /\ ~rs[i].body.json}
        first     == CHOOSE i \in broken : \A k \in broken : i <= k
        issue_ids == {i \in 1..got : rs[i].status_code = 200}
        key       == keys[Len(rs) + 1]
        lookup == [Request("GET", "issue",
                           "/rest/api/3/issue/" \o Str(key) \o "?fields=id",
                           {200})
                       EXCEPT !.issue_keys = {key}]
        post == [Request("POST", "sprint",
                         "/rest/agile/1.0/sprint/" \o Show(sprint_id) \o "/issue",
                         {})
                     EXCEPT !.fields = {Str(keys[i]) : i \in issue_ids}]
    IN
    IF ~Truthy(sprint_id) \/ n = 0
    THEN Return(<<"Error:", " Missing required parameters 'sprint_id' and 'keys'">>)
    ELSE IF FirstInvalid(keys) # 0
    THEN Return(<<"Error:", " Invalid issue key format: ",
                  Str(keys[FirstInvalid(keys)])>>)
    ELSE IF broken # {}
    THEN IF rs[first].kind = "RequestError"
         THEN Return(ConnectionFailed(rs[first]))
         ELSE Return(Unexpected(JSONDecodeError))
    ELSE IF Len(rs) < n THEN Send(lookup)
    ELSE IF issue_ids = {}
    THEN Return(<<"Error:", " No valid issues found">>)
    ELSE IF Len(rs) = n THEN Send(post)
    ELSE LET response == rs[n + 1] IN
         IF response.kind = "RequestError"
         THEN Return(ConnectionFailed(response))
         ELSE IF response.status_code = 204
         THEN Return(<<"Added ", ToString(Cardinality(issue_ids)),
                       " issues to sprint ", Show(sprint_id), "Issues: ">>
                         \o [i \in 1..n |-> Str(keys[i])])
         ELSE Return(HttpError(response))

(***************************************************************************)
(* create_subtask, clone_issue (server.py 2429-2505, 2687-2749).           *)
(***************************************************************************)
\* the tail both share: POST /rest/api/3/issue answered by rs[2]
CreateFrom(rs, text) ==
    IF Len(rs) = 1
    THEN Send(Request("POST", "create", "/rest/api/3/issue", {201}))
    ELSE LET response == rs[2] IN
         IF response.kind = "RequestError"
         THEN Return(ConnectionFailed(response))
         ELSE IF response.status_code = 201
         THEN IF ~response.body.json THEN Return(Unexpected(JSONDecodeError))
              ELSE IF response.body.key = None THEN Return(Unexpected("'key'"))
              ELSE Return(<<text, Str(response.body.key)>>)
         ELSE Return(HttpError(response))

create_subtask(args, rs) ==
    LET parent_key == Get(args, "parent_key", None)
        summary    == Get(args, "summary", None)
        req == [Request("GET", "issue",
                        "/rest/api/3/issue/" \o Str(parent_key) \o "?fields=project",
                        {200})
                    EXCEPT !.issue_keys = {parent_key}]
    IN
    IF ~Truthy(parent_key) \/ ~Truthy(summary)
    THEN Return(<<"Error:", " Missing required parameters 'parent_key' and 'summary'">>)
    ELSE IF ~IsStr(parent_key) THEN Raise(TypeError)
    ELSE IF ~validate_issue_key(parent_key)
    THEN Return(<<"Error:", " Invalid parent issue key format">>)
    ELSE IF Len(rs) = 0 THEN Send(req)
    ELSE LET parent_response == rs[1] IN
         IF parent_response.kind = "RequestError"
         THEN Return(ConnectionFailed(parent_response))
         ELSE IF parent_response.status_code # 200
         THEN Return(<<"Error:", " Parent issue not found - ",
                       ToString(parent_response.status_code)>>)
         ELSE IF ~parent_response.body.json
         THEN Return(Unexpected(JSONDecodeError))
         ELSE CreateFrom(rs, "Created subtask ")

clone_issue(args, rs) ==
    LET key     == Get(args, "key", None)
        summary == Get(args, "summary", None)
        req == [Request("GET", "issue", "/rest/api/3/issue/" \o Str(key), {200})
                    EXCEPT !.issue_keys = {key}]
    IN
    IF ~Truthy(key) \/ ~Truthy(summary)
    THEN Return(<<"Error:", " Missing required parameters 'key' and 'summary'">>)
    ELSE IF ~IsStr(key) THEN Raise(TypeError)
    ELSE IF ~validate_issue_key(key) THEN Return(InvalidIssueKey)
    ELSE IF Len(rs) = 0 THEN Send(req)
    ELSE LET original_response == rs[1] IN
         IF original_response.kind = "RequestError"
         THEN Return(ConnectionFailed(original_response))
         ELSE IF original_response.status_code # 200
         THEN Return(<<"Error:", " Original issue not found - ",
                       ToString(original_response.status_code)>>)
         ELSE IF ~original_response.body.json
         THEN Return(Unexpected(JSONDecodeError))
         ELSE CreateFrom(rs, "Cloned issue to ")

(***************************************************************************)
(* The dispatcher (server.py 599-700).                                     *)
(***************************************************************************)
\* the if/elif chain of call_tool; the final else raises ValueError
Dispatch(name, arguments, rs) ==
    CASE name = "get_user_stories" -> get_user_stories(arguments, rs)
      [] name = "get_issue" -> get_issue(arguments, rs)
      [] name = "get_projects" -> get_projects(arguments, rs)
      [] name = "search_issues" -> search_issues(arguments, rs)
      [] name = "get_project_stats" -> get_project_stats(arguments, rs)
      [] name = "get_recent_issues" -> get_recent_issues(arguments, rs)
      [] name = "get_issues_by_assignee" -> get_issues_by_assignee(arguments, rs)
      [] name = "create_issue" -> create_issue(arguments, rs)
      [] name = "update_issue" -> update_issue(arguments, rs)
      [] name = "advanced_jql_search" -> advanced_jql_search(arguments, rs)
      [] name = "transition_issue" -> transition_issue(arguments, rs)
      [] name = "get_transitions" -> get_transitions(arguments, rs)
      [] name = "add_comment" -> add_comment(arguments, rs)
      [] name = "list_attachments" -> list_attachments(arguments, rs)
      [] name = "get_issue_types" -> get_issue_types(arguments, rs)
      [] name = "bulk_update_issues" -> bulk_update_issues(arguments, rs)
      [] name = "upload_attachment" -> upload_attachment(arguments, rs)
      [] name = "download_attachment" -> download_attachment(arguments, rs)
      [] name = "bulk_transition_issues" -> bulk_transition_issues(arguments, rs)
      [] name = "assign_issue" -> assign_issue(arguments, rs)
      [] name = "get_project_components" -> get_project_components(arguments, rs)
      [] name = "get_project_versions" -> get_project_versions(arguments, rs)
      [] name = "get_custom_fields" -> get_custom_fields(arguments, rs)
      [] name = "get_sprints" -> get_sprints(arguments, rs)
      [] name = "add_to_sprint" -> add_to_sprint(arguments, rs)
      [] name = "get_boards" -> get_boards(arguments, rs)
      [] name = "get_sprint_issues" -> get_sprint_issues(arguments, rs)
      [] name = "link_issues" -> link_issues(arguments, rs)
      [] name = "get_subtasks" -> get_subtasks(arguments, rs)
      [] name = "add_worklog" -> add_worklog(arguments, rs)
      [] name = "get_users" -> get_users(arguments, rs)
      [] name = "create_subtask" -> create_subtask(arguments, rs)
      [] name = "list_webhooks" -> list_webhooks(arguments, rs)
      [] name = "add_watcher" -> add_watcher(arguments, rs)
      [] name = "get_watchers" -> get_watchers(arguments, rs)
      [] name = "get_issue_links" -> get_issue_links(arguments, rs)
      [] name = "clone_issue" -> clone_issue(arguments, rs)
      [] name = "get_time_tracking_report" -> get_time_tracking_report(arguments, rs)
      [] name = "get_project_roles" -> get_project_roles(arguments, rs)
      [] name = "export_issues" -> export_issues(arguments, rs)
      [] name = "create_webhook" -> create_webhook(arguments, rs)
      [] name = "create_version" -> create_version(arguments, rs)
      [] name = "get_user_permissions" -> get_user_permissions(arguments, rs)
      [] name = "get_workflows" -> get_workflows(arguments, rs)
      [] name = "release_version" -> release_version(arguments, rs)
      [] name = "get_burndown_data" -> get_burndown_data(arguments, rs)
      [] OTHER -> Raise("Unknown tool: " \o name)

\* call_tool: the chain inside try ... except Exception as e:
\* return [TextContent(type="text", text=f"Error: {str(e)}")]
\* a variant of call_tool without its except clause
call_tool_uncaught(name, arguments, rs) == Dispatch(name, arguments, rs)

call_tool(name, arguments, rs) ==
    LET step == Dispatch(name, arguments, rs) IN
    IF step.t = "raise" THEN Return(Unexpected(step.exc)) ELSE step

\* TextContent(type="text", text=text)
TextContent(text) == [type |-> "text", text |-> text]

(***************************************************************************)
(* The advertised tools and their input schemas (server.py 65-597).        *)
(***************************************************************************)
\* a variant of list_tools that advertises get_issue_links under a name the
\* dispatcher does not know
list_tools_stale ==
    {"get_user_stories", "get_issue", "get_projects", "search_issues", 
     "get_project_stats", "get_recent_issues", 
     "get_issues_by_assignee", "create_issue", "update_issue", 
     "advanced_jql_search", "transition_issue", "get_transitions", 
     "add_comment", "list_attachments", "get_issue_types", 
     "bulk_update_issues", "upload_attachment", "download_attachment", 
     "bulk_transition_issues", "assign_issue", 
     "get_project_components", "get_project_versions", 
     "get_custom_fields", "get_sprints", "add_to_sprint", 
     "get_boards", "get_sprint_issues", "link_issues", "get_subtasks", 
     "add_worklog", "get_users", "create_subtask", "list_webhooks", 
     "add_watcher", "get_watchers", "get_jira_statistics", "clone_issue", 
     "get_time_tracking_report", "get_project_roles", "export_issues", 
     "create_webhook", "create_version", "get_user_permissions", 
     "get_workflows", "release_version", "get_burndown_data"}

\* the names list_tools returns
list_tools ==
    {"get_user_stories", "get_issue", "get_projects", "search_issues", 
     "get_project_stats", "get_recent_issues", 
     "get_issues_by_assignee", "create_issue", "update_issue", 
     "advanced_jql_search", "transition_issue", "get_transitions", 
     "add_comment", "list_attachments", "get_issue_types", 
     "bulk_update_issues", "upload_attachment", "download_attachment", 
     "bulk_transition_issues", "assign_issue", 
     "get_project_components", "get_project_versions", 
     "get_custom_fields", "get_sprints", "add_to_sprint", 
     "get_boards", "get_sprint_issues", "link_issues", "get_subtasks", 
     "add_worklog", "get_users", "create_subtask", "list_webhooks", 
     "add_watcher", "get_watchers", "get_issue_links", "clone_issue", 
     "get_time_tracking_report", "get_project_roles", "export_issues", 
     "create_webhook", "create_version", "get_user_permissions", 
     "get_workflows", "release_version", "get_burndown_data"}

\* inputSchema["required"] of the tool called name
required(name) ==
    CASE name = "get_issue" -> {"key"}
      [] name = "search_issues" -> {"jql"}
      [] name = "get_project_stats" -> {"project"}
      [] name = "get_issues_by_assignee" -> {"assignee"}
      [] name = "create_issue" -> {"project", "summary"}
      [] name = "update_issue" -> {"key"}
      [] name = "advanced_jql_search" -> {"jql"}
      [] name = "transition_issue" -> {"key", "transition"}
      [] name = "get_transitions" -> {"key"}
      [] name = "add_comment" -> {"key", "comment"}
      [] name = "list_attachments" -> {"key"}
      [] name = "get_issue_types" -> {"project"}
      [] name = "bulk_update_issues" -> {"keys", "updates"}
      [] name = "upload_attachment" -> {"key", "file_path"}
      [] name = "download_attachment" -> {"attachment_url", "save_path"}
      [] name = "bulk_transition_issues" -> {"keys", "transition"}
      [] name = "assign_issue" -> {"key", "assignee"}
      [] name = "get_project_components" -> {"project"}
      [] name = "get_project_versions" -> {"project"}
      [] name = "get_sprints" -> {"board_id"}
      [] name = "add_to_sprint" -> {"sprint_id", "keys"}
      [] name = "get_sprint_issues" -> {"sprint_id"}
      [] name = "link_issues" -> {"inward_key", "outward_key", "link_type"}
      [] name = "get_subtasks" -> {"key"}
      [] name = "add_worklog" -> {"key", "time_spent"}
      [] name = "get_users" -> {"project"}
      [] name = "create_subtask" -> {"parent_key", "summary"}
      [] name = "add_watcher" -> {"key", "username"}
      [] name = "get_watchers" -> {"key"}
      [] name = "get_issue_links" -> {"key"}
      [] name = "clone_issue" -> {"key", "summary"}
      [] name = "get_time_tracking_report" -> {"project"}
      [] name = "get_project_roles" -> {"project"}
      [] name = "export_issues" -> {"jql", "format"}
      [] name = "create_webhook" -> {"name", "url", "events"}
      [] name = "create_version" -> {"project", "name"}
      [] name = "get_user_permissions" -> {"project", "username"}
      [] name = "release_version" -> {"version_id"}
      [] name = "get_burndown_data" -> {"sprint_id"}
      [] OTHER -> {}

\* "minimum" and "maximum" of the 'limit' property (server.py 76, 106, 129,
\* 140, 185) and of the 'days' property (server.py 128)
LimitMinimum == 1
LimitMaximum == 100
DaysMinimum == 1
DaysMaximum == 365

\* the tools whose schema has a 'limit' property
LimitTools ==
    {"get_user_stories", "search_issues", "get_recent_issues",
     "get_issues_by_assignee", "advanced_jql_search"}

(***************************************************************************)
(* The callers: the names and argument mappings a tools/call may carry.    *)
(***************************************************************************)
KW1 == <<"K","W","-","1">>
KW  == <<"K","W">>
Txt == <<"t","x","t">>

\* values a caller may pass as an issue key
IssueKeyValues ==
    {KW1, <<"N","O","T","A","K","E","Y">>, <<"k","w","-","1">>,
     <<"K","W","-","1","\n">>, <<"B","A","D"," ","K","E","Y">>, <<>>, NonString}

\* values a caller may pass as a project key
ProjectKeyValues ==
    {KW, <<"k","w">>, <<"K","W","-","1">>, <<"K","W","\n">>, <<>>, NonString}

LimitValues == {-1, 0, 1, 100, 101, 250, 10000}
DaysValues  == {-1, 0, 1, 7, 365, 366}

\* the i-th well-formed key of a 'keys' list: KW-1, KW-2, ...
GoodKey(i) == <<"K","W","-",ToString(i)>>

\* 'keys' lists of at most MaxKeys keys: all well-formed, repeated, or with
\* one malformed key
KeyLists ==
    {[i \in 1..n |-> GoodKey(i)] : n \in 0..MaxKeys}
        \cup {[i \in 1..n |-> KW1] : n \in 2..MaxKeys}
        \cup UNION {{[i \in 1..n |-> IF i = b THEN <<"B","A","D"," ","K","E","Y">>
                                     ELSE GoodKey(i)] : b \in 1..n} :
                       n \in 1..MaxKeys}

\* the mappings with at most the entry k, its value from V
Opt(k, V) == {NoArgs} \cup {k :> v : v \in V}

\* the mappings made of one mapping of A and one of B
Cross(A, B) == {a @@ b : a \in A, b \in B}

IssueKeyTools ==
    {"get_issue", "get_transitions", "list_attachments", "get_subtasks",
     "get_watchers", "get_issue_links"}

ProjectKeyTools ==
    {"get_project_stats", "get_issue_types", "get_project_components",
     "get_project_versions", "get_users", "get_time_tracking_report",
     "get_project_roles"}

\* the argument mappings callers pass to the tool called name
ArgsFor(name) ==
    CASE name \in IssueKeyTools -> Opt("key", IssueKeyValues)
      [] name \in ProjectKeyTools -> Opt("project", ProjectKeyValues)
      [] name = "get_user_stories" ->
            Cross(Opt("project", ProjectKeyValues), Opt("limit", LimitValues))
      [] name \in {"search_issues", "advanced_jql_search"} ->
            Cross(Opt("jql", {Txt, <<>>}), Opt("limit", LimitValues))
      [] name = "get_recent_issues" ->
            Cross(Opt("days", DaysValues), Opt("limit", {0, 20, 101}))
      [] name = "get_issues_by_assignee" ->
            Cross(Opt("assignee", {Txt, <<>>}), Opt("limit", LimitValues))
      [] name = "create_issue" ->
            Cross(Cross(Opt("project", ProjectKeyValues),
                        Opt("summary", {Txt, Quoted})),
                  Opt("description", {Txt}))
      [] name = "update_issue" ->
            Cross(Opt("key", IssueKeyValues),
                  Cross(Opt("summary", {Txt}), Opt("priority", {Txt})))
      [] name \in {"transition_issue"} ->
            Cross(Opt("key", IssueKeyValues),
                  Opt("transition", {<<"d","o","n","e">>, <<"3","1">>,
                                     <<"N","o","p","e">>}))
      [] name = "add_comment" ->
            Cross(Opt("key", IssueKeyValues), Opt("comment", {Txt, <<>>}))
      [] name = "assign_issue" ->
            Cross(Opt("key", IssueKeyValues), Opt("assignee", {Txt, <<>>}))
      [] name = "add_worklog" ->
            Cross(Opt("key", IssueKeyValues), Opt("time_spent", {Txt}))
      [] name = "add_watcher" ->
            Cross(Opt("key", IssueKeyValues), Opt("username", {Txt}))
      [] name = "clone_issue" ->
            Cross(Opt("key", IssueKeyValues), Opt("summary", {Txt}))
      [] name = "create_subtask" ->
            Cross(Opt("parent_key", IssueKeyValues), Opt("summary", {Txt}))
      [] name = "upload_attachment" ->
            Cross(Opt("key", IssueKeyValues),
                  Opt("file_path", {ExistingFile, <<"m">>}))
      [] name = "download_attachment" ->
            Cross(Opt("attachment_url",
                      {<<"JIRA_URL", "/secure/attachment/1">>,
                       <<"https://other.example", "/a">>}),
                  Opt("save_path", {<<"d","/","o">>, <<"o">>}))
      [] name = "create_version" ->
            Cross(Opt("project", ProjectKeyValues), Opt("name", {Txt}))
      [] name = "get_user_permissions" ->
            Cross(Opt("project", ProjectKeyValues), Opt("username", {Txt}))
      [] name = "get_sprints" -> Opt("board_id", {<<"4","2">>, <<>>})
      [] name \in {"get_sprint_issues", "get_burndown_data"} ->
            Opt("sprint_id", {<<"7">>, <<>>})
      [] name = "release_version" -> Opt("version_id", {<<"9">>, <<>>})
      [] name = "export_issues" ->
            Cross(Opt("jql", {Txt, <<>>}),
                  Opt("format", {<<"c","s","v">>, <<"J","S","O","N">>, <<>>}))
      [] name = "create_webhook" ->
            Cross(Cross(Opt("name", {Txt}), Opt("url", {Txt})),
                  Opt("events", {<<>>, <<Txt>>}))
      [] name = "link_issues" ->
            Cross(Cross(Opt("inward_key", {KW1, <<"N","O","T","A","K","E","Y">>, NonString}),
                        Opt("outward_key", {KW1, <<"k","w","-","1">>, NonString})),
                  Opt("link_type", {Txt}))
      [] name = "bulk_update_issues" ->
            Cross(Opt("keys", KeyLists),
                  Opt("updates", {<<>>, <<"priority">>, <<"labels">>}))
      [] name = "bulk_transition_issues" ->
            Cross(Opt("keys", KeyLists),
                  Opt("transition", {<<"d","o","n","e">>, <<"N","o","p","e">>}))
      [] name = "add_to_sprint" ->
            Cross(Opt("sprint_id", {<<"7">>}), Opt("keys", KeyLists))
      [] OTHER -> {NoArgs, "key" :> KW1}

\* names a tools/call may carry: the advertised ones and three others
Names == list_tools \cup {"delete_issue", "GET_ISSUE", "get_jira_statistics"}

(***************************************************************************)
(* The server: one tools/call at a time (server.py 599-700).              *)
(***************************************************************************)
\* the configuration as load_dotenv and os.getenv leave it at import
StartupConfig ==
    [JIRA_URL |-> "JIRA_URL", JIRA_USERNAME |-> "JIRA_USERNAME",
     JIRA_API_TOKEN |-> "JIRA_API_TOKEN"]

\* no second call is in flight
NoParked ==
    [pc |-> "idle", name |-> "", args |-> NoArgs, sent |-> <<>>,
     resps |-> <<>>, result |-> <<>>, raised |-> FALSE]

\* no call was delivered yet
NoCall ==
    [name |-> "", args |-> NoArgs, text |-> <<>>, statuses |-> <<>>,
     projects |-> <<>>]

Init ==
    /\ pc = "idle"
    /\ tool_name = ""
    /\ tool_args = NoArgs
    /\ sent = <<>>
    /\ resps = <<>>
    /\ result = <<>>
    /\ raised = FALSE
    /\ tracker = [projects |-> <<>>, issues |-> {}]
    /\ last = NoCall
    /\ config = StartupConfig
    /\ parked = NoParked

\* the handler runs until its next await, its return or its exception
Advance(step) ==
    /\ pc' = IF step.t = "send" THEN "awaiting" ELSE "done"
    /\ sent' = IF step.t = "send" THEN Append(sent, step.req) ELSE sent
    /\ result' = IF step.t = "return" THEN <<TextContent(step.text)>> ELSE <<>>
    /\ raised' = (step.t = "raise")

\* a tools/call request arrives: call_tool(name, arguments) starts
CallTool ==
    /\ pc = "idle"
    /\ \E n \in Names : \E a \in ArgsFor(n) :
          /\ tool_name' = n
          /\ tool_args' = a
          /\ resps' = <<>>
          /\ Advance(call_tool(n, a, <<>>))
    /\ UNCHANGED <<tracker, last, config, parked>>

\* the awaited request completes: a response arrives or the transport fails
Respond ==
    /\ pc = "awaiting"
    /\ \E o \in Outcomes(sent[Len(sent)]) :
          /\ resps' = Append(resps, o)
          /\ Advance(call_tool(tool_name, tool_args, Append(resps, o)))
    /\ UNCHANGED <<tool_name, tool_args, tracker, last, config, parked>>

\* the result is written to the caller; the server waits for the next call
Deliver ==
    /\ pc = "done"
    /\ pc' = "idle"
    /\ tool_name' = ""
    /\ tool_args' = NoArgs
    /\ sent' = <<>>
    /\ resps' = <<>>
    /\ result' = <<>>
    /\ raised' = FALSE
    /\ UNCHANGED <<tracker, last, config, parked>>

Next == CallTool \/ Respond \/ Deliver

Spec == Init /\ [][Next]_vars

(***************************************************************************)
(* What a call shows to the outside.                                       *)
(***************************************************************************)
\* the names call_tool's if/elif chain compares name with (server.py 604-695)
dispatched ==
    {"get_user_stories", "get_issue", "get_projects", "search_issues", 
     "get_project_stats", "get_recent_issues", 
     "get_issues_by_assignee", "create_issue", "update_issue", 
     "advanced_jql_search", "transition_issue", "get_transitions", 
     "add_comment", "list_attachments", "get_issue_types", 
     "bulk_update_issues", "upload_attachment", "download_attachment", 
     "bulk_transition_issues", "assign_issue", 
     "get_project_components", "get_project_versions", 
     "get_custom_fields", "get_sprints", "add_to_sprint", 
     "get_boards", "get_sprint_issues", "link_issues", "get_subtasks", 
     "add_worklog", "get_users", "create_subtask", "list_webhooks", 
     "add_watcher", "get_watchers", "get_issue_links", "clone_issue", 
     "get_time_tracking_report", "get_project_roles", "export_issues", 
     "create_webhook", "create_version", "get_user_permissions", 
     "get_workflows", "release_version", "get_burndown_data"}

\* the messages of the results the handlers return from their argument
\* checks, before their first request
ValidationMessages ==
    {
     " Invalid issue key format",
     " Invalid issue key format: ",
     " Invalid parent issue key format",
     " Invalid project key format",
     " Missing required 'assignee' parameter",
     " Missing required 'jql' parameter",
     " Missing required 'key' parameter",
     " Missing required 'project' parameter",
     " Missing required parameter 'board_id'",
     " Missing required parameter 'jql'",
     " Missing required parameter 'key'",
     " Missing required parameter 'project'",
     " Missing required parameter 'sprint_id'",
     " Missing required parameter 'version_id'",
     " Missing required parameters 'attachment_url' and 'save_path'",
     " Missing required parameters 'key' and 'comment'",
     " Missing required parameters 'key' and 'file_path'",
     " Missing required parameters 'key' and 'summary'",
     " Missing required parameters 'key' and 'time_spent'",
     " Missing required parameters 'key' and 'transition'",
     " Missing required parameters 'key' and 'username'",
     " Missing required parameters 'keys' and 'transition'",
     " Missing required parameters 'keys' and 'updates'",
     " Missing required parameters 'parent_key' and 'summary'",
     " Missing required parameters 'project' and 'name'",
     " Missing required parameters 'project' and 'summary'",
     " Missing required parameters 'sprint_id' and 'keys'",
     " Missing required parameters",
     " No fields provided to update"}

\* text is the result of a failed argument check
ValidationError(text) ==
    Len(text) >= 2 /\ text[1] = "Error:" /\ text[2] \in ValidationMessages

\* text begins with "Error:" / has "Error:" somewhere in it
BeginsWithError(text) == Len(text) >= 1 /\ text[1] = "Error:"
ContainsError(text)   == \E i \in 1..Len(text) : text[i] = "Error:"

\* the arguments of the tool called name that carry one issue key, one
\* project key, a list of issue keys (the schemas, server.py 65-597)
IssueKeyArgs(name) ==
    CASE name \in {"get_issue", "update_issue", "transition_issue",
                   "get_transitions", "add_comment", "list_attachments",
                   "upload_attachment", "assign_issue", "get_subtasks",
                   "add_worklog", "add_watcher", "get_watchers",
                   "get_issue_links", "clone_issue"} -> {"key"}
      [] name = "create_subtask" -> {"parent_key"}
      [] name = "link_issues" -> {"inward_key", "outward_key"}
      [] OTHER -> {}

ProjectKeyArgs(name) ==
    IF name \in {"get_user_stories", "get_project_stats", "create_issue",
                 "get_issue_types", "get_project_components",
                 "get_project_versions", "get_users",
                 "get_time_tracking_report", "get_project_roles",
                 "create_version", "get_user_permissions"}
    THEN {"project"} ELSE {}

KeyListArgs(name) ==
    IF name \in {"bulk_update_issues", "bulk_transition_issues", "add_to_sprint"}
    THEN {"keys"} ELSE {}

\* the call in progress carries a key that is a string and does not have
\* the format of its kind
MalformedStringKey ==
    \/ \E k \in IssueKeyArgs(tool_name) \cap DOMAIN tool_args :
          /\ Truthy(tool_args[k]) /\ IsStr(tool_args[k])
          /\ ~ISSUE_KEY_PATTERN(tool_args[k])
    \/ \E k \in ProjectKeyArgs(tool_name) \cap DOMAIN tool_args :
          /\ Truthy(tool_args[k]) /\ IsStr(tool_args[k])
          /\ ~PROJECT_KEY_PATTERN(tool_args[k])
    \/ \E k \in KeyListArgs(tool_name) \cap DOMAIN tool_args :
          \E i \in 1..Len(tool_args[k]) : ~ISSUE_KEY_PATTERN(tool_args[k][i])

\* the call in progress carries a key that is not a string at all
NonStringKey ==
    \E k \in (IssueKeyArgs(tool_name) \cup ProjectKeyArgs(tool_name))
                \cap DOMAIN tool_args : tool_args[k] = NonString

\* some request of the call in progress did not succeed: the transport
\* failed, the status is not 2xx, or the body the handler reads is not JSON
StepFailed ==
    \E i \in 1..Len(resps) :
        \/ resps[i].kind = "RequestError"
        \/ /\ resps[i].kind = "response"
           /\ \/ resps[i].status_code \notin {200, 201, 204}
              \/ resps[i].status_code \in sent[i].parses /\ ~resps[i].body.json

(***************************************************************************)
(* Properties of the calls.                                                *)
(***************************************************************************)
\* C1: every issue key and every project key that a sent request carries in
\* its URL path or in its JQL, whether the caller supplied it or the remote
\* named it in an earlier response, has the format validate_issue_key /
\* validate_project_key accepts.
C1_KeysInRequestsAreValidated ==
    \A i \in 1..Len(sent) :
        /\ \A k \in sent[i].issue_keys : IsStr(k) /\ ISSUE_KEY_PATTERN(k)
        /\ \A k \in sent[i].project_keys : IsStr(k) /\ PROJECT_KEY_PATTERN(k)

\* C2: a call that carries a malformed key (in a key argument, in either key
\* of link_issues, in any element of a 'keys' list) issues no request and
\* ends with an "Error:" result; when the key is a string the result is the
\* one of an argument check.
C2_MalformedKeyRejected ==
    (pc # "idle" /\ (MalformedStringKey \/ NonStringKey)) =>
        /\ pc = "done"
        /\ sent = <<>>
        /\ ~raised
        /\ Len(result) = 1
        /\ BeginsWithError(result[1].text)
        /\ MalformedStringKey /\ ~NonStringKey => ValidationError(result[1].text)

\* a call of link_issues whose outward key alone is malformed has ended
\* with "Error: Invalid issue key format", nothing sent
C2_Witness ==
    /\ pc = "done"
    /\ tool_name = "link_issues"
    /\ DOMAIN tool_args = {"inward_key", "outward_key", "link_type"}
    /\ tool_args["inward_key"] = KW1
    /\ tool_args["outward_key"] = <<"k","w","-","1">>
    /\ sent = <<>>
    /\ result = <<TextContent(InvalidIssueKey)>>

\* C3: when the call fails (an argument check fails, a request gets a
\* transport failure, a non-2xx status or an unparseable body), the result
\* text begins with "Error:"; so a text without "Error:" tells that every
\* step succeeded.
C3_FailuresBeginWithError ==
    (pc = "done" /\ (StepFailed \/ MalformedStringKey)) =>
        Len(result) = 1 /\ BeginsWithError(result[1].text)

\* C4: whatever the name, the arguments and the remote's answers, call_tool
\* ends by returning a list of exactly one text content item and raises
\* nothing; while it runs it has returned nothing, and it awaits at most two
\* requests per key of its list and one more, so it ends once its requests
\* end (each has a timeout).
C4_OneTextItemNeverRaises ==
    /\ ~raised
    /\ Len(sent) <= 2 * MaxKeys + 1
    /\ pc = "done" =>
          /\ Len(result) = 1
          /\ result[1].type = "text"
          /\ Len(result[1].text) >= 1
    /\ pc # "done" => result = <<>>

\* get_issue called with a key that is not a string: re.match raised, and
\* the caller got the one text item "Error: expected string ..."
C4_Witness ==
    /\ pc = "done"
    /\ tool_name = "get_issue"
    /\ tool_args = ("key" :> NonString)
    /\ ~raised
    /\ result = <<TextContent(<<"Error:", " ", TypeError>>)>>

\* C5: a call whose name is none of the dispatched names ends at once with
\* the one-item result "Error: Unknown tool: <name>", issues no request and
\* raises nothing.
C5_UnknownToolNamed ==
    (pc # "idle" /\ tool_name \notin dispatched) =>
        /\ pc = "done"
        /\ sent = <<>>
        /\ ~raised
        /\ result = <<TextContent(<<"Error:", " ", "Unknown tool: " \o tool_name>>)>>

\* the call of the unknown tool "delete_issue" has ended
C5_Witness ==
    /\ pc = "done"
    /\ tool_name = "delete_issue"
    /\ sent = <<>>
    /\ result = <<TextContent(<<"Error:", " ", "Unknown tool: delete_issue">>)>>

C7_DaysOutOfRangeRejected ==
    (/\ pc # "idle"
     /\ tool_name = "get_recent_issues"
     /\ "days" \in DOMAIN tool_args
     /\ (tool_args["days"] < DaysMinimum \/ tool_args["days"] > DaysMaximum)) =>
        /\ pc = "done"
        /\ sent = <<>>
        /\ Len(result) = 1
        /\ BeginsWithError(result[1].text)

\* the call in progress lacks an argument its schema requires, or carries
\* an empty value for it
RequiredMissing ==
    \E r \in required(tool_name) : ~Truthy(Get(tool_args, r, None))

\* C8: a call that omits an argument its tool's schema lists as required,
\* or passes an empty value for it, issues no request and ends with the
\* result of an argument check.
C8_RequiredArgumentsChecked ==
    (pc # "idle" /\ tool_name \in list_tools /\ RequiredMissing) =>
        /\ pc = "done"
        /\ sent = <<>>
        /\ Len(result) = 1
        /\ BeginsWithError(result[1].text)

\* C9: a call of get_user_stories with a limit below the schema's minimum
\* sends that value in no request and ends with a text that has "Error:".
C9_LimitBelowMinimumRejected ==
    (/\ pc # "idle"
     /\ tool_name = "get_user_stories"
     /\ "limit" \in DOMAIN tool_args
     /\ tool_args["limit"] < LimitMinimum) =>
        /\ \A i \in 1..Len(sent) : tool_args["limit"] \notin sent[i].maxResults
        /\ pc = "done" => Len(result) = 1 /\ ContainsError(result[1].text)

\* C10: when some request of a call was answered with status 401, the
\* result text has "Error:" and the guidance to generate a new API token.
C10_UnauthorizedGivesTokenGuidance ==
    (/\ pc = "done"
     /\ \E i \in 1..Len(resps) :
            resps[i].kind = "response" /\ resps[i].status_code = 401) =>
        /\ Len(result) = 1
        /\ ContainsError(result[1].text)
        /\ \E i \in 1..Len(result[1].text) : result[1].text[i] = TokenGuidance

(***************************************************************************)
(* The bulk tools' reports.                                                *)
(***************************************************************************)
BulkTools == {"bulk_update_issues", "bulk_transition_issues"}

\* the 'keys' list of the call in progress
CallKeys == Get(tool_args, "keys", <<>>)

\* the call in progress is a bulk call with keys and with its other argument
BulkCall ==
    /\ tool_name \in BulkTools
    /\ Len(CallKeys) > 0
    /\ Truthy(Get(tool_args,
                  IF tool_name = "bulk_update_issues" THEN "updates"
                  ELSE "transition", <<>>))

KeysWellFormed == \A i \in 1..Len(CallKeys) : ISSUE_KEY_PATTERN(CallKeys[i])

\* text is f"Bulk ... results ({len(keys)} issues):\n" + "\n".join(results)
IsBulkReport(text) ==
    /\ Len(text) >= 3
    /\ text[1] \in {"Bulk update results (", "Bulk transition results ("}
    /\ (Len(text) - 3) % 3 = 0

\* the number of lines of results, and the i-th line <<mark, key, message>>
EntryCount(text) == (Len(text) - 3) \div 3
Entry(text, i)   == SubSeq(text, 3 * i + 1, 3 * i + 3)

\* the numbers of lines marked as successes and as failures
Successful(text) ==
    Cardinality({i \in 1..EntryCount(text) : Entry(text, i)[1] = "[ok] "})
Failed(text) ==
    Cardinality({i \in 1..EntryCount(text) : Entry(text, i)[1] = "[failed] "})

\* the report has one line per key, the i-th line for the i-th key, each
\* marked as a success or as a failure
OneEntryPerKey(text) ==
    /\ IsBulkReport(text)
    /\ EntryCount(text) = Len(CallKeys)
    /\ \A i \in 1..Len(CallKeys) :
          /\ Entry(text, i)[2] = Str(CallKeys[i])
          /\ Entry(text, i)[1] \in {"[ok] ", "[failed] "}

\* the report's heading tells how many keys succeeded and how many failed
ReportsCounts(text) ==
    \E a, b \in 1..3 :
        /\ a # b
        /\ text[a] = ToString(Successful(text))
        /\ text[b] = ToString(Failed(text))

\* C11: a bulk update or bulk transition of N keys ends with a report that
\* tells the numbers of successes and of failures, which add up to N, and
\* has exactly N lines, the i-th for the i-th key, whatever the remote
\* answered for each key.
C11_BulkReportCounts ==
    (pc = "done" /\ BulkCall /\ KeysWellFormed) =>
        /\ OneEntryPerKey(result[1].text)
        /\ Successful(result[1].text) + Failed(result[1].text) = Len(CallKeys)
        /\ ReportsCounts(result[1].text)

\* C12: when some keys of a bulk call are malformed, the report still has
\* one line per key: a malformed key's line is a failure and no request
\* carries that key, and every well-formed key has its requests.
C12_MalformedKeysReportedPerKey ==
    (pc = "done" /\ BulkCall /\ ~KeysWellFormed) =>
        /\ OneEntryPerKey(result[1].text)
        /\ \A i \in 1..Len(CallKeys) :
              IF ISSUE_KEY_PATTERN(CallKeys[i])
              THEN \E p \in 1..Len(sent) : sent[p].issue_keys = {CallKeys[i]}
              ELSE /\ Entry(result[1].text, i)[1] = "[failed] "
                   /\ \A p \in 1..Len(sent) : sent[p].issue_keys # {CallKeys[i]}

\* the positions in sent of the lookups GET /issue/{key}/transitions, and
\* the position of the j-th of them
Lookups == {p \in 1..Len(sent) : sent[p].endpoint = "transitions"}
Lookup(j) == CHOOSE p \in Lookups : Cardinality({q \in Lookups : q < p}) = j - 1

\* the request at position p was answered with status code
Answered(p, code) ==
    /\ p <= Len(resps)
    /\ resps[p].kind = "response"
    /\ resps[p].status_code = code

\* bulk_update_issues has sent exactly one PUT per key, in the order of the
\* keys, and the i-th line is a success exactly when the i-th PUT got 204
UpdatesIndependent ==
    /\ Len(sent) = Len(CallKeys)
    /\ \A i \in 1..Len(CallKeys) :
          /\ sent[i].method = "PUT"
          /\ sent[i].issue_keys = {CallKeys[i]}
          /\ Entry(result[1].text, i)[1] = "[ok] " <=> Answered(i, 204)

\* bulk_transition_issues has looked up the transitions of every key, in
\* the order of the keys; its only other requests are the POSTs of a
\* transition, each right after the lookup of the same key; the i-th line
\* is a success exactly when the POST for the i-th key got 204
TransitionsIndependent ==
    /\ Cardinality(Lookups) = Len(CallKeys)
    /\ \A p \in 1..Len(sent) :
          \/ p \in Lookups
          \/ /\ sent[p].endpoint = "do_transition"
             /\ sent[p].method = "POST"
             /\ p - 1 \in Lookups
             /\ sent[p - 1].issue_keys = sent[p].issue_keys
             /\ Answered(p - 1, 200)
    /\ \A i \in 1..Len(CallKeys) :
          /\ sent[Lookup(i)].method = "GET"
          /\ sent[Lookup(i)].issue_keys = {CallKeys[i]}
          /\ Entry(result[1].text, i)[1] = "[ok] " <=>
                /\ Lookup(i) + 1 \in 1..Len(sent) \ Lookups
                /\ Answered(Lookup(i) + 1, 204)

\* C13: in a bulk update or bulk transition, what happens to one key (a
\* non-success status, an unavailable transition, a transport failure) shows
\* in that key's line only: every key gets its own requests, in the order of
\* the keys, whatever happened to the keys before it, and nothing is sent
\* to undo an earlier key's success.
C13_BulkFailuresIndependent ==
    (pc = "done" /\ BulkCall /\ KeysWellFormed) =>
        /\ OneEntryPerKey(result[1].text)
        /\ tool_name = "bulk_update_issues" => UpdatesIndependent
        /\ tool_name = "bulk_transition_issues" => TransitionsIndependent

\* a bulk transition of two keys has ended: the first key's lookup timed
\* out, the second key was transitioned
C13_Witness ==
    /\ pc = "done"
    /\ tool_name = "bulk_transition_issues"
    /\ Len(CallKeys) = 2
    /\ Len(sent) = 3
    /\ resps[1].kind = "RequestError"
    /\ Answered(3, 204)
    /\ Entry(result[1].text, 1)[1] = "[failed] "
    /\ Entry(result[1].text, 2)[1] = "[ok] "

(***************************************************************************)
(* Requests per call.                                                      *)
(***************************************************************************)
\* the tools that change one thing at the remote tracker
WriteTools ==
    {"create_issue", "update_issue", "transition_issue", "assign_issue",
     "add_comment", "add_worklog", "link_issues", "add_watcher",
     "create_subtask", "clone_issue", "create_version", "release_version",
     "create_webhook", "upload_attachment"}

\* the positions in sent of the requests that change the remote: POST, PUT
Mutating == {p \in 1..Len(sent) : sent[p].method \in {"POST", "PUT"}}

\* C14: a call of a non-bulk write tool sends at most one POST or PUT;
\* nothing is sent after a request that met a transport failure or a
\* non-success status, and no request is sent twice.
C14_AtMostOneWriteNoRetry ==
    tool_name \in WriteTools =>
        /\ Cardinality(Mutating) <= 1
        /\ \A p \in 1..Len(resps) :
              p < Len(sent) =>
                  /\ resps[p].kind = "response"
                  /\ resps[p].status_code \in {200, 201, 204}
        /\ \A p, q \in 1..Len(sent) :
              (sent[p].method = sent[q].method /\ sent[p].path = sent[q].path)
                  => p = q

\* add_comment has ended after its POST got status 500: one request in all
C14_Witness ==
    /\ pc = "done"
    /\ tool_name = "add_comment"
    /\ Len(sent) = 1
    /\ sent[1].method = "POST"
    /\ Answered(1, 500)
    /\ BeginsWithError(result[1].text)

(***************************************************************************)
(* Transport failures.                                                     *)
(***************************************************************************)
\* the positions of the requests that met a transport failure
TransportFailures ==
    {p \in 1..Len(resps) : resps[p].kind = "RequestError"}

\* the index in 'keys' of the key the bulk call's request at p is for
KeyIndexOf(p) ==
    IF tool_name = "bulk_update_issues" THEN p
    ELSE Cardinality({q \in Lookups : q <= p})

\* C15 as claimed: whichever tool it is, a transport failure on a request
\* of the call ends the call with the one result "Error: Connection failed
\* - <exception text>", and nothing is raised.
C15_TransportFailureIsConnectionError ==
    (pc = "done" /\ TransportFailures # {}) =>
        /\ ~raised
        /\ Len(result) = 1
        /\ \E p \in TransportFailures :
              result[1].text = <<"Error:", " Connection failed - ", resps[p].msg>>

\* C15 as amended: in every tool but the two bulk tools, a transport
\* failure ends the call with "Error: Connection failed - <exception
\* text>"; in bulk_update_issues and bulk_transition_issues it is caught per
\* key and makes that key's line "<key>: Error - <exception text>", marked
\* as a failure; in no tool is anything raised out of call_tool.
C15_TransportFailureReported ==
    (pc = "done" /\ TransportFailures # {}) =>
        /\ ~raised
        /\ Len(result) = 1
        /\ IF tool_name \in BulkTools
           THEN \A p \in TransportFailures :
                   Entry(result[1].text, KeyIndexOf(p)) =
                       <<"[failed] ", Str(CallKeys[KeyIndexOf(p)]),
                         ": Error - " \o resps[p].msg>>
           ELSE /\ Cardinality(TransportFailures) = 1
                /\ \A p \in TransportFailures :
                      /\ p = Len(resps)
                      /\ result[1].text =
                            <<"Error:", " Connection failed - ", resps[p].msg>>

\* add_to_sprint has ended because the lookup of its second key timed out
C15_Witness ==
    /\ pc = "done"
    /\ tool_name = "add_to_sprint"
    /\ Len(sent) = 2
    /\ Answered(1, 200)
    /\ resps[2].kind = "RequestError"
    /\ result[1].text = <<"Error:", " Connection failed - ", "timed out">>

(***************************************************************************)
(* The validators on their own (server.py 53-63): validate_project_key and *)
(* validate_issue_key applied to every string of at most MaxLen characters *)
(* over a small alphabet.                                                  *)
(***************************************************************************)
Alphabet == {"K", "w", "7", "_", "-", "\n"}

Strings == UNION {[1..n -> Alphabet] : n \in 0..MaxLen}

\* the string handed to the validator
TheString == tool_args["s"]

InitValidate ==
    /\ pc = "validate"
    /\ tool_name = ""
    /\ tool_args \in {"s" :> s : s \in Strings}
    /\ sent = <<>>
    /\ resps = <<>>
    /\ result = <<>>
    /\ raised = FALSE
    /\ tracker = [projects |-> <<>>, issues |-> {}]
    /\ last = NoCall
    /\ config = StartupConfig
    /\ parked = NoParked

ValidateProjectKey ==
    /\ pc = "validate"
    /\ pc' = "validated"
    /\ tool_name' = "validate_project_key"
    /\ result' = <<validate_project_key(TheString)>>
    /\ UNCHANGED <<tool_args, sent, resps, raised, tracker, last, config, parked>>

ValidateIssueKey ==
    /\ pc = "validate"
    /\ pc' = "validated"
    /\ tool_name' = "validate_issue_key"
    /\ result' = <<validate_issue_key(TheString)>>
    /\ UNCHANGED <<tool_args, sent, resps, raised, tracker, last, config, parked>>

NextValidate == ValidateProjectKey \/ ValidateIssueKey

SpecValidate == InitValidate /\ [][NextValidate]_vars

\* s is one uppercase letter followed by characters of [A-Z0-9_], and
\* nothing else
ExactProjectKey(s) ==
    /\ Len(s) >= 1
    /\ s[1] \in Upper
    /\ \A i \in 2..Len(s) : s[i] \in Word

\* s is such a prefix, then "-", then one or more digits, and nothing else
ExactIssueKey(s) ==
    \E d \in 2..(Len(s) - 1) :
        /\ ExactProjectKey(SubSeq(s, 1, d - 1))
        /\ s[d] = "-"
        /\ \A i \in (d + 1)..Len(s) : s[i] \in Digit

\* C16: validate_project_key(s) is true exactly when s is one uppercase
\* letter followed by zero or more of [A-Z0-9_] and nothing else;
\* validate_issue_key(s) is true exactly when s is such a prefix followed
\* by "-" and one or more digits and nothing else.
C16_ValidatorsExact ==
    pc = "validated" =>
        /\ tool_name = "validate_project_key" =>
              (result[1] <=> ExactProjectKey(TheString))
        /\ tool_name = "validate_issue_key" =>
              (result[1] <=> ExactIssueKey(TheString))

(***************************************************************************)
(* The tool surface.                                                       *)
(***************************************************************************)
\* the tool names the specification lists as the stable contract
ToolSurface ==
    {"get_user_stories", "get_issue", "get_projects", "search_issues",
     "get_project_stats", "get_recent_issues",
     "get_issues_by_assignee", "create_issue", "update_issue",
     "advanced_jql_search", "transition_issue", "get_transitions",
     "add_comment", "bulk_transition_issues", "assign_issue",
     "add_worklog", "list_attachments", "get_issue_types",
     "get_project_components", "get_project_versions",
     "get_custom_fields", "get_users", "get_boards", "get_sprints",
     "get_sprint_issues", "link_issues", "get_subtasks",
     "create_subtask", "bulk_update_issues", "clone_issue",
     "add_to_sprint", "get_burndown_data", "upload_attachment",
     "download_attachment", "list_webhooks", "create_webhook",
     "add_watcher", "get_watchers", "get_time_tracking_report",
     "get_project_roles", "export_issues", "create_version",
     "release_version", "get_user_permissions", "get_workflows",
     "get_jira_statistics"}

\* C17: every name of the tool surface is advertised by list_tools and
\* dispatched by call_tool to an operation, so a call of it never ends with
\* the unknown-tool error; list_tools advertises at least 46 tools.
C17_SurfaceAdvertisedAndDispatched ==
    (pc = "done" /\ tool_name \in ToolSurface) =>
        /\ tool_name \in list_tools
        /\ tool_name \in dispatched
        /\ result[1].text # <<"Error:", " ", "Unknown tool: " \o tool_name>>
        /\ Cardinality(list_tools) >= 46

(***************************************************************************)
(* The server against a tracker that stores what it is sent.  The remote   *)
(* keeps a project list and the issues created through POST /issue, and    *)
(* answers a request from what it stores, or fails (transport, 500).       *)
(* Calls are get_projects, create_issue and get_issue; 'last' keeps the    *)
(* call delivered before the present one.                                  *)
(***************************************************************************)
\* the most issues the tracker lets the caller create
MaxIssues == 2

TrackerNames == {"get_projects", "create_issue", "get_issue"}

\* the key the tracker gives the n-th issue of project KW
NewKey(n) == <<"K","W","-",ToString(n)>>

TrackerArgs(name) ==
    CASE name = "get_projects" -> {NoArgs}
      [] name = "create_issue" ->
            Cross({"project" :> KW}, Opt("summary", {Txt, Quoted}))
      [] name = "get_issue" ->
            {"key" :> NewKey(n) : n \in 1..(MaxIssues + 1)}

\* the issue stored under key, as a set of at most one element
Stored(key) == {i \in tracker.issues : i.key = key}

\* the answer of the tracker to req when nothing fails
Faithful(req) ==
    CASE req.endpoint = "project_list" ->
            Response(200, [json |-> TRUE, projects |-> tracker.projects])
      [] req.endpoint = "create" ->
            Response(201, [json |-> TRUE,
                           key |-> NewKey(Cardinality(tracker.issues) + 1)])
      [] req.endpoint = "issue_detail" ->
            IF \E i \in tracker.issues : i.key \in req.issue_keys
            THEN LET i == CHOOSE i \in tracker.issues : i.key \in req.issue_keys
                 IN Response(200, [json |-> TRUE, key |-> i.key,
                                   summary |-> i.summary, status |-> ToDo])
            ELSE Response(404, [json |-> FALSE])

\* what the tracker stores once it has answered req with o
StoredAfter(req, o) ==
    IF req.method = "POST" /\ req.endpoint = "create"
           /\ o.kind = "response" /\ o.status_code = 201
    THEN [tracker EXCEPT !.issues =
             @ \cup {[key |-> o.body.key, summary |-> req.summary]}]
    ELSE tracker

TrackerOutcomes(req) ==
    {TransportError, Faithful(req), Response(500, [json |-> FALSE])}

\* status_code of each response of a call, 0 for a transport failure
Statuses(rs) ==
    [i \in 1..Len(rs) |->
        IF rs[i].kind = "response" THEN rs[i].status_code ELSE 0]

InitTracker ==
    /\ pc = "idle"
    /\ tool_name = ""
    /\ tool_args = NoArgs
    /\ sent = <<>>
    /\ resps = <<>>
    /\ result = <<>>
    /\ raised = FALSE
    /\ tracker \in {[projects |-> ps, issues |-> {}] : ps \in ProjectLists}
    /\ last = NoCall
    /\ config = StartupConfig
    /\ parked = NoParked

CallTracked ==
    /\ pc = "idle"
    /\ \E n \in TrackerNames : \E a \in TrackerArgs(n) :
          /\ n = "create_issue" => Cardinality(tracker.issues) < MaxIssues
          /\ tool_name' = n
          /\ tool_args' = a
          /\ resps' = <<>>
          /\ Advance(call_tool(n, a, <<>>))
    /\ UNCHANGED <<tracker, last, config, parked>>

RespondTracked ==
    /\ pc = "awaiting"
    /\ \E o \in TrackerOutcomes(sent[Len(sent)]) :
          /\ resps' = Append(resps, o)
          /\ tracker' = StoredAfter(sent[Len(sent)], o)
          /\ Advance(call_tool(tool_name, tool_args, Append(resps, o)))
    /\ UNCHANGED <<tool_name, tool_args, last, config, parked>>

DeliverTracked ==
    /\ pc = "done"
    /\ pc' = "idle"
    /\ last' = [name |-> tool_name, args |-> tool_args,
                text |-> IF raised THEN <<>> ELSE result[1].text,
                statuses |-> Statuses(resps), projects |-> tracker.projects]
    /\ tool_name' = ""
    /\ tool_args' = NoArgs
    /\ sent' = <<>>
    /\ resps' = <<>>
    /\ result' = <<>>
    /\ raised' = FALSE
    /\ UNCHANGED <<tracker, config, parked>>

\* somebody else adds or removes a project between two calls
RemoteChange ==
    /\ pc = "idle"
    /\ \E ps \in ProjectLists \ {tracker.projects} :
          tracker' = [tracker EXCEPT !.projects = ps]
    /\ UNCHANGED <<pc, tool_name, tool_args, sent, resps, result, raised, last, config, parked>>

NextTracker == CallTracked \/ RespondTracked \/ DeliverTracked \/ RemoteChange

SpecTracker == InitTracker /\ [][NextTracker]_vars

\* the present call is get_projects, the call before it was too, the
\* project set is the one of that call and the HTTP statuses are the same
RepeatedGetProjects ==
    /\ pc = "done"
    /\ tool_name = "get_projects"
    /\ last.name = "get_projects"
    /\ last.projects = tracker.projects
    /\ Statuses(resps) = last.statuses
    /\ \A i \in 1..Len(resps) : resps[i].kind = "response"

JsonUnescape(f) ==
    CASE f = "\\\"" -> "\"" [] f = "\\\\" -> "\\" [] f = "\\n" -> "\n"
      [] OTHER -> f

\* the text has a member named summary
HasSummary(text) == \E m \in 1..Len(text) : text[m] = ", \"summary\": "

\* the fragment that names the member summary
SummaryMember(text) == CHOOSE m \in 1..Len(text) : text[m] = ", \"summary\": "

\* the quote that closes the string after the opening quote at position o
ClosingQuote(text, o) ==
    CHOOSE j \in (o + 1)..Len(text) :
        text[j] = "\"" /\ \A i \in (o + 1)..(j - 1) : text[i] # "\""

\* payload["summary"]
PayloadSummary(text) ==
    LET o == SummaryMember(text) + 1
        j == ClosingQuote(text, o)
    IN [i \in 1..(j - o - 1) |-> JsonUnescape(text[o + i])]

\* the call delivered last was a create_issue that created an issue
CreatedLast ==
    /\ last.name = "create_issue"
    /\ Len(last.text) >= 2
    /\ last.text[1] \in {"Created issue ", "Issue created ("}

\* the present call is a get_issue on the key the create_issue before it
\* returned, and the tracker answered it
RoundTrip ==
    /\ pc = "done"
    /\ tool_name = "get_issue"
    /\ CreatedLast
    /\ Str(tool_args["key"]) = last.text[2]
    /\ Statuses(resps) = <<200>>

\* C20: after a create_issue that created an issue on a tracker that
\* stores what it is sent, a get_issue on the returned key that the
\* tracker answers yields a payload whose summary is the summary that
\* was given to create_issue
C20_SummaryRoundTrip ==
    RoundTrip =>
        /\ ~raised
        /\ HasSummary(result[1].text)
        /\ PayloadSummary(result[1].text) = last.args["summary"]

\* an issue whose summary has a quote in it was created and then read back
C20_Witness ==
    /\ RoundTrip
    /\ ~raised
    /\ last.args["summary"] = Quoted
    /\ last.args["project"] = KW
    /\ HasSummary(result[1].text)
    /\ PayloadSummary(result[1].text) = Quoted

(***************************************************************************)
(* Two calls in flight.  The handlers are coroutines on one event loop:    *)
(* the loop leaves a call only where the call awaits a response (or has    *)
(* returned), and then runs the other one.  The variables pc .. raised     *)
(* are the call the loop runs, 'parked' is the other call.                 *)
(***************************************************************************)
ConcurrentNames == {"bulk_update_issues", "get_projects", "get_issue"}

ConcurrentArgs(name) ==
    CASE name = "bulk_update_issues" ->
            {("keys" :> [i \in 1..n |-> GoodKey(i)]) @@ ("updates" :> <<"priority">>) :
                n \in 1..MaxKeys}
      [] name = "get_projects" -> {NoArgs}
      [] name = "get_issue" -> {"key" :> KW1}

\* the answers of the remote that the handlers tell apart here
ConcurrentOutcomes(req) ==
    {o \in Outcomes(req) :
        \/ o.kind = "RequestError"
        \/ o.status_code \in {204, 500}
        \/ o.status_code = 200 /\ o.body.json}

\* the call the loop runs, as a record
Running ==
    [pc |-> pc, name |-> tool_name, args |-> tool_args, sent |-> sent,
     resps |-> resps, result |-> result, raised |-> raised]

InitConcurrent ==
    /\ pc = "idle"
    /\ tool_name = ""
    /\ tool_args = NoArgs
    /\ sent = <<>>
    /\ resps = <<>>
    /\ result = <<>>
    /\ raised = FALSE
    /\ tracker = [projects |-> <<>>, issues |-> {}]
    /\ last = NoCall
    /\ config = StartupConfig
    /\ parked = NoParked

CallConcurrent ==
    /\ pc = "idle"
    /\ \E n \in ConcurrentNames : \E a \in ConcurrentArgs(n) :
          /\ tool_name' = n
          /\ tool_args' = a
          /\ resps' = <<>>
          /\ Advance(call_tool(n, a, <<>>))
    /\ UNCHANGED <<tracker, last, config, parked>>

RespondConcurrent ==
    /\ pc = "awaiting"
    /\ \E o \in ConcurrentOutcomes(sent[Len(sent)]) :
          /\ resps' = Append(resps, o)
          /\ Advance(call_tool(tool_name, tool_args, Append(resps, o)))
    /\ UNCHANGED <<tool_name, tool_args, tracker, last, config, parked>>

DeliverConcurrent ==
    /\ pc = "done"
    /\ pc' = "idle"
    /\ tool_name' = ""
    /\ tool_args' = NoArgs
    /\ sent' = <<>>
    /\ resps' = <<>>
    /\ result' = <<>>
    /\ raised' = FALSE
    /\ UNCHANGED <<tracker, last, config, parked>>

\* the call the loop runs awaits (or is over): the loop runs the other one
Switch ==
    /\ Running # parked
    /\ pc' = parked.pc
    /\ tool_name' = parked.name
    /\ tool_args' = parked.args
    /\ sent' = parked.sent
    /\ resps' = parked.resps
    /\ result' = parked.result
    /\ raised' = parked.raised
    /\ parked' = Running
    /\ UNCHANGED <<tracker, last, config>>

NextConcurrent ==
    CallConcurrent \/ RespondConcurrent \/ DeliverConcurrent \/ Switch

SpecConcurrent == InitConcurrent /\ [][NextConcurrent]_vars

\* both calls have returned, and they were given the same tool name, the
\* same arguments and the same responses
SameCallTwice ==
    /\ pc = "done"
    /\ parked.pc = "done"
    /\ tool_name = parked.name
    /\ tool_args = parked.args
    /\ resps = parked.resps

Wanted == Get(tool_args, "transition", None)
IsWanted(t) == Lower(t.name) = Lower(Wanted) \/ t.id = Wanted

\* the request at position p got a 200 that lists transitions
Listing(p) == Answered(p, 200) /\ resps[p].body.json
Listed(p) == resps[p].body.transitions

\* the listed transitions that are the wanted one, by position in the list
Hits(p) == {i \in 1..Len(Listed(p)) : IsWanted(Listed(p)[i])}

\* the POST at position p follows the lookup of the same key, which got a
\* 200, and carries the id of the first listed transition that is wanted
PostFollowsLookup(p) ==
    /\ p > 1
    /\ sent[p - 1].endpoint = "transitions"
    /\ sent[p - 1].method = "GET"
    /\ sent[p - 1].issue_keys = sent[p].issue_keys
    /\ Listing(p - 1)
    /\ \E i \in Hits(p - 1) :
          /\ \A j \in Hits(p - 1) : i <= j
          /\ sent[p].fields = {Str(Listed(p - 1)[i].id)}

\* the call is over and tells that the wanted transition is not available
\* for the key looked up at position p
NotAvailableReported(p) ==
    IF tool_name = "transition_issue"
    THEN /\ result[1].text[1] = "Error:"
         /\ \E k \in 1..Len(result[1].text) : result[1].text[k] = Str(Wanted)
    ELSE LET i == Cardinality({q \in Lookups : q <= p}) IN
         /\ IsBulkReport(result[1].text)
         /\ i <= EntryCount(result[1].text)
         /\ Entry(result[1].text, i) =
                <<"[failed] ", Str(CallKeys[i]),
                  ": Transition '" \o Str(Wanted) \o "' not available">>

\* C22: transition_issue and bulk_transition_issues POST a transition for
\* a key only right after the lookup of that key's transitions got 200,
\* and with the id of the first listed transition whose name is the wanted
\* one ignoring case or whose id is the wanted one; when none is listed,
\* nothing is POSTed for the key and the result names the wanted transition
C22_TransitionPostedOnlyWhenListed ==
    tool_name \in {"transition_issue", "bulk_transition_issues"} =>
        \A p \in 1..Len(sent) :
            /\ sent[p].method = "POST" => PostFollowsLookup(p)
            /\ (p \in Lookups /\ Listing(p) /\ Hits(p) = {}) =>
                  /\ p < Len(sent) => sent[p + 1].method # "POST"
                  /\ (pc = "done" /\ ~raised) => NotAvailableReported(p)

\* a bulk transition to "done" has ended: for the first key two listed
\* transitions were "done" and the first one's id was POSTed, for the
\* second key none was listed
C22_Witness ==
    /\ pc = "done"
    /\ tool_name = "bulk_transition_issues"
    /\ Len(sent) = 3
    /\ Listing(1) /\ Cardinality(Hits(1)) = 2
    /\ sent[2].method = "POST" /\ sent[2].fields = {"41"}
    /\ Listing(3) /\ Hits(3) = {}
    /\ NotAvailableReported(3)

\* C23: a bulk update or bulk transition has one request in flight while
\* it awaits and none otherwise, and its requests go through the keys in
\* the order given: each request is for the key its position stands for,
\* and that key is the key of the request before it or the next one; so
\* a key's first request is sent after every response for the key before
C23_BulkRequestsSequential ==
    (tool_name \in BulkTools /\ pc # "idle") =>
        /\ Len(sent) - Len(resps) = (IF pc = "awaiting" THEN 1 ELSE 0)
        /\ \A p \in 1..Len(sent) :
              /\ KeyIndexOf(p) \in 1..Len(CallKeys)
              /\ sent[p].issue_keys = {CallKeys[KeyIndexOf(p)]}
              /\ p = 1 => KeyIndexOf(p) = 1
              /\ p > 1 => KeyIndexOf(p) - KeyIndexOf(p - 1) \in {0, 1}

\* a bulk update of two different keys awaits the answer for the second
\* key, the first key's answer being in
C23_Witness ==
    /\ pc = "awaiting"
    /\ tool_name = "bulk_update_issues"
    /\ Len(CallKeys) = 2
    /\ CallKeys[1] # CallKeys[2]
    /\ Len(sent) = 2
    /\ Len(resps) = 1
    /\ sent[2].issue_keys = {CallKeys[2]}

\* the keys a result of add_to_sprint lists after "Issues: "
ListedAsAdded(text) == {text[k] : k \in 6..Len(text)}

\* the text has a line that marks key as failed
MarkedFailed(text, key) ==
    \E k \in 1..(Len(text) - 1) : text[k] = "[failed] " /\ text[k + 1] = Str(key)

\* C24: when add_to_sprint, given well-formed keys, has posted to the
\* sprint and reports the keys it added, these are the keys whose ids it
\* posted, their number is the number it tells, and a key whose id lookup
\* did not get 200 is reported as failed
C24_SprintReportPerKey ==
    (/\ pc = "done"
     /\ tool_name = "add_to_sprint"
     /\ ~raised
     /\ result[1].text[1] = "Added ") =>
        /\ ListedAsAdded(result[1].text) = sent[Len(sent)].fields
        /\ result[1].text[2] = ToString(Cardinality(sent[Len(sent)].fields))
        /\ \A i \in 1..Len(CallKeys) :
              ~Answered(i, 200) => MarkedFailed(result[1].text, CallKeys[i])

\* the one request of the call got a 200 whose body is JSON
AnsweredWithJson ==
    /\ Len(resps) = 1
    /\ Answered(1, 200)
    /\ resps[1].body.json

\* C25: when get_issue gets a 200 with a JSON body, the call returns the
\* payload, whatever optional entry of the issue is missing or null: it
\* does not raise and its text is not an error
C25_MissingFieldsGetPlaceholders ==
    (pc = "done" /\ tool_name = "get_issue" /\ AnsweredWithJson) =>
        /\ ~raised
        /\ result[1].text[1] # "Error:"
        /\ HasSummary(result[1].text)

\* C26: every request sent with the configured username and API token
\* goes to a URL under the configured JIRA_URL
C26_CredentialsOnlyToJira ==
    \A p \in 1..Len(sent) : sent[p].auth => sent[p].base = config.JIRA_URL

\* the remote has applied the call's mutating request: it answered the
\* POST of create_issue with 201, the PUT of update_issue or the POST of
\* transition_issue with 204
Applied ==
    \E p \in 1..Len(sent) :
        /\ sent[p].method \in {"POST", "PUT"}
        /\ Answered(p, IF tool_name = "create_issue" THEN 201 ELSE 204)

\* C27: when create_issue, update_issue or transition_issue returns a
\* text that begins with "Error:", the remote has not applied the call's
\* mutating request
C27_ErrorMeansNotApplied ==
    (/\ pc = "done"
     /\ tool_name \in {"create_issue", "update_issue", "transition_issue"}
     /\ ~raised
     /\ result[1].text[1] = "Error:") => ~Applied

SearchTools ==
    {"get_user_stories", "search_issues", "get_recent_issues",
     "get_issues_by_assignee", "advanced_jql_search"}

\* where the entries of the output list begin in text, and where the i-th
\* of them does
EntryStarts(text) == {k \in 1..Len(text) : text[k] = "{\"key\": "}
EntryStart(text, i) ==
    CHOOSE k \in EntryStarts(text) :
        Cardinality({q \in EntryStarts(text) : q < k}) = i - 1

\* the key of the i-th entry of the output list, as the caller reads it
EntryKey(text, i) ==
    LET o == EntryStart(text, i) + 1
        j == ClosingQuote(text, o)
    IN [n \in 1..(j - o - 1) |-> JsonUnescape(text[o + n])]

\* C28: on a 200 with a JSON body, the list a search tool returns has one
\* entry for each issue of the response, in the order of the response
C28_OneEntryPerUpstreamIssue ==
    (pc = "done" /\ tool_name \in SearchTools /\ AnsweredWithJson) =>
        LET upstream == resps[1].body.issues
            text     == result[1].text
        IN /\ ~raised
           /\ Cardinality(EntryStarts(text)) = Len(upstream)
           /\ \A i \in 1..Len(upstream) :
                 EntryKey(text, i) = Default(upstream[i].key, Unknown)

\* C29: every PUT of update_issue and of bulk_update_issues has at least
\* one entry in the 'fields' object of its body
C29_PutCarriesFields ==
    tool_name \in {"update_issue", "bulk_update_issues"} =>
        \A p \in 1..Len(sent) : sent[p].method = "PUT" => sent[p].fields # {}

\* the call ended in call_tool's final else: "Error: Unknown tool: <name>"
UnknownToolError ==
    /\ pc = "done"
    /\ ~raised
    /\ result = <<TextContent(<<"Error:", " ", "Unknown tool: " \o tool_name>>)>>

\* C30: the names list_tools advertises are the names call_tool hands to
\* an operation: a call ends with the unknown-tool error exactly when its
\* name is not advertised
C30_AdvertisedIffDispatched ==
    pc # "idle" => (tool_name \in list_tools <=> ~UnknownToolError)

\* the last tool of the list, get_burndown_data, was called and its
\* operation has sent its request
C30_Witness ==
    /\ pc = "awaiting"
    /\ tool_name = "get_burndown_data"
    /\ tool_name \in list_tools
    /\ Len(sent) = 1
====
